---------------------------- MODULE Spec2Model ----------------------------
(***************************************************************************)
(* neurphys: epoch segmentation (_create_epoch, _epoch_data) and the       *)
(* per-epoch statistics built on it (epoch_hist, epoch_kde, epoch_pgram)   *)
(* of src/neurphys/oscillation.py, run on frames shaped like the ones      *)
(* read_abf / mock_multidf produce.                                        *)
(*                                                                         *)
(* Numbers.  Sample values and the value ranges handed to the statistics   *)
(* (hist_min, hist_max, range_min, range_max) are stored as TWICE their    *)
(* value, so that the 0.5 by which numpy widens an empty histogram range   *)
(* is the integer 1.  Axis values the code computes by division (bin       *)
(* edges, the KDE grid, frequencies) are exact fractions [num, den] of the *)
(* real value.  The outputs of scipy's gaussian_kde and periodogram are    *)
(* kept as terms naming the library function, the samples it was given     *)
(* and the output position.                                                *)
(***************************************************************************)
EXTENDS Integers, Sequences, FiniteSets, TLC

VARIABLES
    df,        \* the caller's frame: [levels0, levshape1, blocks]
    window,    \* argument window
    step,      \* argument step
    call,      \* the function called and its other arguments
    pc,        \* "called", "looping", "returned", "raised"
    gen,       \* the frame of the _create_epoch generator: its state, the loop
               \* position (sweep 1-based, epoch 0-based) and num_epochs
    yielded,   \* history: every slice the generator has yielded, in order
    names,     \* num_epochs, sweep_names, epoch_names of _epoch_data
    index,     \* the MultiIndex built before the loop
    arrays,    \* [axis, value]: the two lists the loop appends to
    table,     \* the rows of the returned DataFrame
    err,       \* the exception raised, "" when none
    build,     \* what the installed numpy does with a float number of points
    calls,     \* how many calls the caller has made so far
    prev,      \* history: the arguments and the outcome of the first call
    ii,        \* the argument of a read_abf helper: a list or tuple of values
    ret,       \* <<v>> when the helper has returned v, <<>> before
    stack,     \* the frames of a recursive call, the running one last
    pandas     \* the installed pandas, by what it still provides

vars == <<df, window, step, call, pc, gen, yielded, names, index, arrays,
          table, err, build, calls, prev, ii, ret, stack, pandas>>

-----------------------------------------------------------------------------
(* Bounds of the model *)

MaxSweeps == 2

MaxRows == 3

MaxWindow == 5

MaxStep == 2

MaxBins == 2

(* The literal of 'if num_epochs > 1000' *)
EpochCap == 1000

-----------------------------------------------------------------------------
(* Arithmetic and sequence helpers *)

Abs(x) == IF x < 0 THEN -x ELSE x

Min(a, b) == IF a <= b THEN a ELSE b

Max(a, b) == IF a >= b THEN a ELSE b

(* Python's int(num / den) for integers num, den # 0: the quotient          *)
(* truncated toward zero.                                                   *)
PyInt(num, den) ==
    LET q == Abs(num) \div Abs(den)
    IN  IF (num < 0) # (den < 0) THEN -q ELSE q

(* floor(num / den), den > 0 *)
Floor(num, den) == num \div den

(* A fraction num/den; two fractions are equal when cross products are.     *)
Rat(num, den) == [num |-> num, den |-> den]

RatEq(a, b) == a.den # 0 /\ b.den # 0 /\ a.num * b.den = b.num * a.den

(* Variant of PySlice that stops one element early.                         *)
PySliceShort(seq, a, b) ==
    LET n  == Len(seq)
        lo == IF a < 0 THEN Max(a + n, 0) ELSE Min(a, n)
        hi == IF b < 0 THEN Max(b + n, 0) ELSE Min(b, n)
    IN  IF hi - 1 <= lo THEN <<>> ELSE SubSeq(seq, lo + 1, hi - 1)

(* Python's seq[a:b] with the default stride, negative bounds included.     *)
PySlice(seq, a, b) ==
    LET n  == Len(seq)
        lo == IF a < 0 THEN Max(a + n, 0) ELSE Min(a, n)
        hi == IF b < 0 THEN Max(b + n, 0) ELSE Min(b, n)
    IN  IF hi <= lo THEN <<>> ELSE SubSeq(seq, lo + 1, hi)

(* str(n) for n >= 0, as the sequence of its decimal digits *)
RECURSIVE Str(_)
Str(n) == IF n < 10 THEN <<n>> ELSE Str(n \div 10) \o <<n % 10>>

(* s.zfill(w): zeros on the left up to width w, never cutting *)
RECURSIVE Zfill(_, _)
Zfill(s, w) == IF Len(s) >= w THEN s ELSE Zfill(<<0>> \o s, w)

(* np.concatenate(list_of_arrays, axis=0) for a non-empty list *)
RECURSIVE ConcatRange(_, _, _)
ConcatRange(arrs, lo, hi) ==
    IF lo = hi THEN arrs[lo]
    ELSE LET mid == (lo + hi) \div 2
         IN  ConcatRange(arrs, lo, mid) \o ConcatRange(arrs, mid + 1, hi)

Concatenate(arrs) == ConcatRange(arrs, 1, Len(arrs))

(* np.arange(n) for an integer n *)
Arange(n) == [k \in 1..Max(n, 0) |-> k - 1]

-----------------------------------------------------------------------------
(* The input frame: mock_multidf / read_abf *)

(* 'sweep' + str(i).zfill(3) *)
SweepName(i) == <<"sweep", Zfill(Str(i), 3)>>

(* One sweep's DataFrame: a default integer index and the channel column.   *)
MockDf(trace) == [p \in 1..Len(trace) |-> [index |-> p - 1, primary |-> trace[p]]]

(* The columns every such frame has (num_channels = 2). *)
Columns == {"channel_0", "channel_1", "primary", "time"}

(* pd.concat(frames, keys=keys): the blocks in key order; level 0 of the    *)
(* index is the keys, level 1 the union of the frames' own index labels.    *)
PdConcat(keys, frames) ==
    [levels0   |-> keys,
     levshape1 |-> Cardinality(UNION {{frames[i][p].index : p \in 1..Len(frames[i])} :
                                        i \in 1..Len(frames)}),
     blocks    |-> [i \in 1..Min(Len(keys), Len(frames)) |->
                       [sweep |-> keys[i], rows |-> frames[i]]]]

MockMultiDf(traces) ==
    LET sweep_names == [i \in 1..Len(traces) |-> SweepName(i)]
    IN  PdConcat(sweep_names, [i \in 1..Len(traces) |-> MockDf(traces[i])])

(* df.ix[sweep]: the rows of the block labelled sweep *)
HasSweep(d, sweep) == \E i \in 1..Len(d.blocks) : d.blocks[i].sweep = sweep

SweepDf(d, sweep) ==
    d.blocks[CHOOSE i \in 1..Len(d.blocks) : d.blocks[i].sweep = sweep].rows

(* epoch[channel] as a plain sequence of values; the model carries the     *)
(* samples of the one channel the calls analyse, 'primary'.                 *)
ChannelValues(rows) == [p \in 1..Len(rows) |-> rows[p].primary]

-----------------------------------------------------------------------------
(* _create_epoch *)

(* The builds of pandas the code can run on.  DataFrame.ix, which           *)
(* _create_epoch (line 53), calc_decay and import_ls_csv use, exists only   *)
(* before pandas 1.0; pd.concat given more keys than frames pairs them off  *)
(* in order and drops the keys left over, and raises ValueError for the     *)
(* unequal lengths from pandas 3.                                           *)
PandasBuilds == {"before 1.0", "1.0 to 2", "3"}

HasIx(b) == b = "before 1.0"

ConcatRaises(b) == b = "3"

(* int(1 + (num_rows - window) / step), step # 0 *)
NumEpochs(num_rows, w, s) == PyInt(s + num_rows - w, s)

(* The division raises ZeroDivisionError when step is 0 *)
DivisionFails(s) == s = 0

(* 'if num_epochs > 1000: raise ValueError' *)
TooMany(num_epochs) == num_epochs > EpochCap

(* The statements before the loops: num_rows, num_epochs, the guard, sweeps *)

CreateEpochHead(d, w, s) ==
    LET num_rows   == d.levshape1
        num_epochs == IF DivisionFails(s) THEN 0 ELSE NumEpochs(num_rows, w, s)
    IN  [num_rows   |-> num_rows,
         div_fails  |-> DivisionFails(s),
         num_epochs |-> num_epochs,
         too_many   |-> TooMany(num_epochs),
         sweeps     |-> d.levels0]

(* Variant of EpochSlice that always starts at the first row.               *)
EpochSliceFromStart(sweep_df, w, s, epoch) ==
    PySlice(sweep_df, 0, w + s * epoch)

(* Variant of EpochSlice that starts one row late.                          *)
EpochSliceFromOne(sweep_df, w, s, epoch) ==
    PySlice(sweep_df, 1 + s * epoch, w + s * epoch)

(* sweep_df[(0 + step * epoch):(window + step * epoch)] *)
EpochSlice(sweep_df, w, s, epoch) ==
    PySlice(sweep_df, 0 + s * epoch, w + s * epoch)

(* Variant of NextPosition that walks the sweeps from the last to the first *)
NextPositionLastSweepFirst(g, h) ==
    LET n == Len(h.sweeps)
    IN  IF h.num_epochs <= 0 \/ n = 0 THEN [sweep |-> 0, epoch |-> 0]
        ELSE IF g.state = "created" THEN [sweep |-> n, epoch |-> 0]
        ELSE IF g.epoch + 1 < h.num_epochs
             THEN [sweep |-> g.sweep, epoch |-> g.epoch + 1]
        ELSE IF g.sweep > 1 THEN [sweep |-> g.sweep - 1, epoch |-> 0]
        ELSE [sweep |-> 0, epoch |-> 0]

(* The loop position after the one in g: the next epoch of the same sweep,  *)
(* or epoch 0 of the next sweep.  0 for the sweep when the loops are over.  *)
NextPosition(g, h) ==
    IF h.num_epochs <= 0 \/ Len(h.sweeps) = 0 THEN [sweep |-> 0, epoch |-> 0]
    ELSE IF g.state = "created" THEN [sweep |-> 1, epoch |-> 0]
    ELSE IF g.epoch + 1 < h.num_epochs
         THEN [sweep |-> g.sweep, epoch |-> g.epoch + 1]
    ELSE IF g.sweep < Len(h.sweeps) THEN [sweep |-> g.sweep + 1, epoch |-> 0]
    ELSE [sweep |-> 0, epoch |-> 0]

(* One next() on the generator: what it does ("yield", "stop", "raise"),    *)
(* its frame afterwards, and the slice it yields.  On a build b of pandas   *)
(* without DataFrame.ix the first pass of the loop over the sweeps raises   *)
(* AttributeError at line 53, whatever num_epochs is.                       *)
GenNext(d, w, s, g, b) ==
    LET h   == CreateEpochHead(d, w, s)
        pos == NextPosition(g, h)
        missing == {i \in 1..Len(h.sweeps) : ~HasSweep(d, h.sweeps[i])}
    IN  IF g.state = "finished"
        THEN [kind |-> "stop", gen |-> g, data |-> <<>>, error |-> ""]
        ELSE IF g.state = "created" /\ h.div_fails
        THEN [kind |-> "raise", gen |-> [g EXCEPT !.state = "finished"],
              data |-> <<>>, error |-> "ZeroDivisionError"]
        ELSE IF g.state = "created" /\ h.too_many
        THEN [kind |-> "raise", gen |-> [g EXCEPT !.state = "finished", !.num_epochs = h.num_epochs],
              data |-> <<>>, error |-> "ValueError: too many epochs"]
        ELSE IF Len(h.sweeps) > 0 /\ ~HasIx(b)
        THEN [kind |-> "raise", gen |-> [g EXCEPT !.state = "finished", !.num_epochs = h.num_epochs],
              data |-> <<>>, error |-> "AttributeError"]
        ELSE IF \/ (pos.sweep # 0 /\ pos.sweep \in missing)
                \/ (pos.sweep = 0 /\ h.num_epochs <= 0 /\ missing # {})
        THEN [kind |-> "raise", gen |-> [g EXCEPT !.state = "finished", !.num_epochs = h.num_epochs],
              data |-> <<>>, error |-> "KeyError: sweep"]
        ELSE IF pos.sweep = 0
        THEN [kind |-> "stop", gen |-> [g EXCEPT !.state = "finished", !.num_epochs = h.num_epochs],
              data |-> <<>>, error |-> ""]
        ELSE [kind |-> "yield",
              gen  |-> [state |-> "suspended", sweep |-> pos.sweep,
                        epoch |-> pos.epoch, num_epochs |-> h.num_epochs],
              data |-> EpochSlice(SweepDf(d, h.sweeps[pos.sweep]), w, s, pos.epoch),
              error |-> ""]

-----------------------------------------------------------------------------
(* _epoch_data *)

(* 'epoch{}'.format(str(i+1).zfill(3)) for the 0-based epoch i *)

EpochName(i) == <<"epoch", Zfill(Str(i + 1), 3)>>

EpochData(d, w, s) ==
    LET num_rows   == d.levshape1
        num_epochs == IF DivisionFails(s) THEN 0 ELSE NumEpochs(num_rows, w, s)
    IN  [num_epochs  |-> num_epochs,
         sweep_names |-> d.levels0,
         epoch_names |-> [i \in 1..Max(num_epochs, 0) |-> EpochName(i - 1)]]

-----------------------------------------------------------------------------
(* The assembly shared by epoch_hist, epoch_kde and epoch_pgram *)

(* Variant of FromProduct in which the middle array varies fastest.         *)
FromProductEpochFastest(a, b, c) ==
    [i \in 1..(Len(a) * Len(b) * Len(c)) |->
        <<a[((i - 1) \div (Len(b) * Len(c))) + 1],
          b[((i - 1) % Len(b)) + 1],
          c[(((i - 1) \div Len(b)) % Len(c)) + 1]>>]

(* pd.MultiIndex.from_product([a, b, c]): the labels in product order, the  *)
(* last array varying fastest.                                              *)
FromProduct(a, b, c) ==
    [i \in 1..(Len(a) * Len(b) * Len(c)) |->
        <<a[((i - 1) \div (Len(b) * Len(c))) + 1],
          b[(((i - 1) \div Len(c)) % Len(b)) + 1],
          c[((i - 1) % Len(c)) + 1]>>]

(* np.concatenate of the two lists, zip, DataFrame, set_index(index).       *)
Assemble(axis_arrays, value_arrays, idx) ==
    IF Len(axis_arrays) = 0 \/ Len(value_arrays) = 0
    THEN [ok |-> FALSE, table |-> <<>>,
          error |-> "ValueError: need at least one array to concatenate"]
    ELSE LET axis_concat  == Concatenate(axis_arrays)
             value_concat == Concatenate(value_arrays)
             n == Min(Len(axis_concat), Len(value_concat))
         IN  IF Len(idx) # n
             THEN [ok |-> FALSE, table |-> <<>>,
                   error |-> "ValueError: length mismatch"]
             ELSE [ok |-> TRUE,
                   table |-> [i \in 1..n |->
                                [label |-> idx[i], axis |-> axis_concat[i],
                                 value |-> value_concat[i]]],
                   error |-> ""]

-----------------------------------------------------------------------------
(* epoch_hist: np.histogram(epoch[channel], bins=num_bins,                  *)
(*                          range=(hist_min, hist_max))                     *)

(* The outer edges numpy uses (stored doubled): the range as given, widened *)
(* by 0.5 on both sides when it is empty.                                   *)
OuterEdges(lo, hi) ==
    IF lo = hi THEN [first |-> lo - 1, last |-> hi + 1]
    ELSE [first |-> lo, last |-> hi]

(* The bin (0-based) of a value v inside [first, last]: bins are closed on  *)
(* the left, the last one on both sides.                                    *)
BinOf(v, first, last, bins) ==
    IF v = last THEN bins - 1 ELSE ((v - first) * bins) \div (last - first)

(* Which samples np.histogram counts at all *)
InRange(v, first, last) == first <= v /\ v <= last

(* Variant of NpHistogram that clips out-of-range samples into the outer    *)
(* bins instead of leaving them out.                                        *)
NpHistogramClipping(a, bins, lo, hi) ==
    IF bins < 1 \/ lo > hi
    THEN [ok |-> FALSE, hist |-> <<>>, edges |-> <<>>]
    ELSE LET oe == OuterEdges(lo, hi)
             clip(v) == IF v < oe.first THEN oe.first
                        ELSE IF v > oe.last THEN oe.last ELSE v
         IN  [ok    |-> TRUE,
              hist  |-> [k \in 1..bins |->
                           Cardinality({p \in 1..Len(a) :
                               BinOf(clip(a[p]), oe.first, oe.last, bins) = k - 1})],
              edges |-> [k \in 1..(bins + 1) |->
                           Rat(oe.first * bins + (k - 1) * (oe.last - oe.first),
                               2 * bins)]]

(* hist, bin_edges = np.histogram(a, bins, range=(lo, hi)); not ok when     *)
(* numpy raises (bins < 1, or lo > hi).                                     *)
NpHistogram(a, bins, lo, hi) ==
    IF bins < 1 \/ lo > hi
    THEN [ok |-> FALSE, hist |-> <<>>, edges |-> <<>>]
    ELSE LET oe   == OuterEdges(lo, hi)
             kept == {p \in 1..Len(a) : InRange(a[p], oe.first, oe.last)}
         IN  [ok    |-> TRUE,
              hist  |-> [k \in 1..bins |->
                           Cardinality({p \in kept :
                               BinOf(a[p], oe.first, oe.last, bins) = k - 1})],
              edges |-> [k \in 1..(bins + 1) |->
                           Rat(oe.first * bins + (k - 1) * (oe.last - oe.first),
                               2 * bins)]]

(* Variant of DropLastEdge: bins[1:] *)
DropFirstEdge(edges) == PySlice(edges, 1, Len(edges))

(* bins[:-1] *)

DropLastEdge(edges) == PySlice(edges, 0, -1)

(* The body of epoch_hist's loop for one epoch *)
HistEpoch(epoch, c) ==
    LET h == NpHistogram(ChannelValues(epoch), c.num_bins, c.hist_min, c.hist_max)
    IN  IF c.channel \notin Columns
        THEN [ok |-> FALSE, axis |-> <<>>, value |-> <<>>, error |-> "KeyError: channel"]
        ELSE IF ~h.ok
        THEN [ok |-> FALSE, axis |-> <<>>, value |-> <<>>, error |-> "ValueError: histogram"]
        ELSE [ok |-> TRUE, axis |-> DropLastEdge(h.edges), value |-> h.hist, error |-> ""]

-----------------------------------------------------------------------------
(* epoch_kde *)

(* What a numpy build does when np.linspace is handed a float as its number *)
(* of points: it raises TypeError, or it truncates the float with int().    *)
Builds == {"TypeError", "truncates"}

(* resolution, or abs(range_min - range_max) * 5 when it is None.  The      *)
(* range is stored doubled, so an odd end is a float with a fractional part *)
(* and makes the product a float: is_float says so, whole whether its value *)
(* is a whole number, n is int() of it.  A resolution that is given is an   *)
(* int.                                                                     *)
KdeResolution(c) ==
    IF c.resolution # <<>>
    THEN [is_float |-> FALSE, whole |-> TRUE, n |-> c.resolution[1]]
    ELSE LET twice == Abs(c.range_min - c.range_max) * 5
         IN  [is_float |-> (c.range_min % 2 = 1 \/ c.range_max % 2 = 1),
              whole    |-> twice % 2 = 0,
              n        |-> twice \div 2]

(* len(np.arange(resolution)): the ceiling of a float resolution *)
KdeIndexLen(c) ==
    IF KdeResolution(c).whole THEN KdeResolution(c).n ELSE KdeResolution(c).n + 1

(* np.linspace(lo, hi, num), lo and hi stored doubled *)
Linspace(lo, hi, num) ==
    [k \in 1..Max(num, 0) |->
        IF num = 1 THEN Rat(lo, 2)
        ELSE Rat(lo * (num - 1) + (k - 1) * (hi - lo), 2 * (num - 1))]

(* gaussian_kde(samples) can be built: at least two samples, not all equal  *)
KdeEstimable(a) == \E p, q \in 1..Len(a) : a[p] # a[q]

(* What gaussian_kde raises otherwise: ValueError for fewer than two         *)
(* samples, LinAlgError (singular covariance) for equal ones.                *)
KdeError(a) ==
    IF Len(a) < 2 THEN "ValueError: gaussian_kde" ELSE "LinAlgError: gaussian_kde"

(* Variant of KdeEpoch that catches the estimator's failure and reports     *)
(* the epoch's densities as missing values.                                 *)
KdeEpochCatching(epoch, c, x) ==
    LET a == ChannelValues(epoch)
    IN  IF c.channel \notin Columns
        THEN [ok |-> FALSE, axis |-> <<>>, value |-> <<>>, error |-> "KeyError: channel"]
        ELSE [ok |-> TRUE, axis |-> x,
              value |-> [k \in 1..Len(x) |->
                           IF KdeEstimable(a)
                           THEN [f |-> "gaussian_kde", x |-> a, k |-> k - 1]
                           ELSE [f |-> "nan", x |-> a, k |-> k - 1]],
              error |-> ""]

(* The body of epoch_kde's loop for one epoch: kde = gaussian_kde(...),     *)
(* kde(x)                                                                   *)
KdeEpoch(epoch, c, x) ==
    LET a == ChannelValues(epoch)
    IN  IF c.channel \notin Columns
        THEN [ok |-> FALSE, axis |-> <<>>, value |-> <<>>, error |-> "KeyError: channel"]
        ELSE IF ~KdeEstimable(a)
        THEN [ok |-> FALSE, axis |-> <<>>, value |-> <<>>, error |-> KdeError(a)]
        ELSE [ok |-> TRUE, axis |-> x,
              value |-> [k \in 1..Len(x) |-> [f |-> "gaussian_kde", x |-> a, k |-> k - 1]],
              error |-> ""]

-----------------------------------------------------------------------------
(* epoch_pgram *)

(* len(np.arange((window/2)+1)): true division, so the count is the         *)
(* ceiling of window/2 + 1.                                                 *)
PgramIndexLen(w) == (w + 3) \div 2

(* periodogram(x, fs): len(x) // 2 + 1 frequencies k * fs / len(x) and one  *)
(* density each; empty for an empty x.                                      *)
PgramLen(n) == IF n = 0 THEN 0 ELSE (n \div 2) + 1

(* fs = int(fs) *)
PgramFs(c) == PyInt(c.fs, 1)

(* Variant of PgramEpoch that takes fs / 2 for the sampling rate.           *)
PgramEpochHalfRate(epoch, c) ==
    LET a == ChannelValues(epoch)
        n == Len(a)
    IN  IF c.channel \notin Columns
        THEN [ok |-> FALSE, axis |-> <<>>, value |-> <<>>, error |-> "KeyError: channel"]
        ELSE [ok |-> TRUE,
              axis  |-> [k \in 1..PgramLen(n) |-> Rat((k - 1) * PgramFs(c), 2 * n)],
              value |-> [k \in 1..PgramLen(n) |-> [f |-> "periodogram", x |-> a, k |-> k - 1]],
              error |-> ""]

(* f, den = periodogram(epoch[channel], fs) *)
PgramEpoch(epoch, c) ==
    LET a == ChannelValues(epoch)
        n == Len(a)
    IN  IF c.channel \notin Columns
        THEN [ok |-> FALSE, axis |-> <<>>, value |-> <<>>, error |-> "KeyError: channel"]
        ELSE [ok |-> TRUE,
              axis  |-> [k \in 1..PgramLen(n) |-> Rat((k - 1) * PgramFs(c), n)],
              value |-> [k \in 1..PgramLen(n) |-> [f |-> "periodogram", x |-> a, k |-> k - 1]],
              error |-> ""]

-----------------------------------------------------------------------------
(* What each function does before its loop and in one pass of it *)

(* idx: the innermost level of the result's index *)
InnerIndex(c, w) ==
    CASE c.fn = "hist"  -> Arange(c.num_bins)
      [] c.fn = "kde"   -> Arange(KdeIndexLen(c))
      [] c.fn = "pgram" -> Arange(PgramIndexLen(w))
      [] OTHER          -> <<>>

(* Whether the statements before the loop raise: the division in           *)
(* _epoch_data by a step of 0; then np.linspace refuses a negative number   *)
(* of points, and on build b a float one.                                   *)
SetupError(c, b, s) ==
    IF c.fn # "segment" /\ DivisionFails(s)
    THEN "ZeroDivisionError"
    ELSE IF c.fn = "kde" /\ KdeResolution(c).is_float /\ b = "TypeError"
    THEN "TypeError: linspace"
    ELSE IF c.fn = "kde" /\ KdeResolution(c).n < 0
    THEN "ValueError: linspace" ELSE ""

EpochBody(epoch, c) ==
    CASE c.fn = "hist"  -> HistEpoch(epoch, c)
      [] c.fn = "kde"   -> KdeEpoch(epoch, c,
                                    Linspace(c.range_min, c.range_max, KdeResolution(c).n))
      [] c.fn = "pgram" -> PgramEpoch(epoch, c)
      [] OTHER          -> [ok |-> TRUE, axis |-> <<>>, value |-> <<>>, error |-> ""]

-----------------------------------------------------------------------------
(* The calls the model makes *)

(* One sweep's samples (stored doubled).  mock_multidf draws them at        *)
(* random; the model draws each sweep's trace from three shapes.            *)
TraceKinds == {"flat", "saw", "alt"}

Trace(kind, n) ==
    [p \in 1..n |->
        CASE kind = "flat" -> 0
          [] kind = "saw"  -> (p % 5) - 2
          [] OTHER         -> IF p % 2 = 1 THEN 1 ELSE -1]

RangeEnds == {-1, 0, 1}

(* The channel asked for: a column of the frame, and a name that is none *)
Channels == {"primary", "secondary"}

HistCalls ==
    {[fn |-> "hist", channel |-> ch, hist_min |-> lo, hist_max |-> hi,
      num_bins |-> b] : ch \in Channels, lo \in RangeEnds, hi \in RangeEnds,
                        b \in 1..MaxBins}

(* The ranges [-1, 0], [0, 0], [-0.5, 0] and [-0.5, 0.5], stored doubled *)
KdeRanges == {<<-2, 0>>, <<0, 0>>, <<-1, 0>>, <<-1, 1>>}

KdeCalls ==
    {[fn |-> "kde", channel |-> ch, range_min |-> r[1], range_max |-> r[2],
      resolution |-> res] : ch \in Channels, r \in KdeRanges, res \in {<<>>, <<2>>}}

(* Sampling rates: the default 10e3 and a small odd one *)
SampleRates == {3, 10000}

PgramCalls ==
    {[fn |-> "pgram", channel |-> ch, fs |-> f] : ch \in Channels, f \in SampleRates}

SegmentCalls == {[fn |-> "segment"]}

Calls == SegmentCalls \cup HistCalls \cup KdeCalls \cup PgramCalls

(* Fixed larger scenarios: the 2 x 20 rows, window 5, step 5, 10 bins over  *)
(* [-3, 3] example, and single sweeps around the epoch cap.                 *)
Scenarios ==
    {[sweeps |-> 2, rows |-> 20, window |-> 5, step |-> 5, call |-> c] :
        c \in SegmentCalls \cup
              {[fn |-> "hist", channel |-> "primary", hist_min |-> -6,
                hist_max |-> 6, num_bins |-> 10]}}
    \cup
    {[sweeps |-> 1, rows |-> r, window |-> 1, step |-> 1, call |-> c] :
        r \in {EpochCap - 1, EpochCap, EpochCap + 1},
        c \in SegmentCalls \cup
              {[fn |-> "hist", channel |-> "primary", hist_min |-> -1,
                hist_max |-> 1, num_bins |-> 1]}}

(* The two empty lists a call starts with: hist_arrays = [], bin_arrays = [] *)
NewArrays == [axis |-> <<>>, value |-> <<>>]

(* A generator object whose body has not started: its locals are unset.    *)
NewGenerator == [state |-> "created", sweep |-> 0, epoch |-> 0, num_epochs |-> 0]

(* The builds that differ for a call: only a float resolution tells them    *)
(* apart.                                                                   *)
BuildsOf(c) ==
    IF c.fn = "kde" /\ KdeResolution(c).is_float THEN Builds ELSE {"TypeError"}

(* No call has been made before the first one *)
NoCall == [made |-> FALSE]

(* No read_abf helper is called in the runs of the epoch functions *)
NoArgument == [container |-> "list", items |-> <<>>]

(* The state in which a call starts: nothing has run yet *)
Start ==
    /\ build \in BuildsOf(call)
    /\ pandas \in PandasBuilds
    /\ calls = 1
    /\ prev = NoCall
    /\ pc = "called"
    /\ gen = NewGenerator
    /\ yielded = <<>>
    /\ names = [num_epochs |-> 0, sweep_names |-> <<>>, epoch_names |-> <<>>]
    /\ index = <<>>
    /\ arrays = NewArrays
    /\ table = <<>>
    /\ err = ""
    /\ ii = NoArgument
    /\ ret = <<>>
    /\ stack = <<>>

(* The state of the epoch functions when a call of another module starts *)
AtRest ==
    /\ window = 1
    /\ step = 1
    /\ build = "TypeError"
    /\ calls = 0
    /\ prev = NoCall
    /\ gen = NewGenerator
    /\ yielded = <<>>
    /\ names = [num_epochs |-> 0, sweep_names |-> <<>>, epoch_names |-> <<>>]
    /\ index = <<>>
    /\ arrays = NewArrays
    /\ table = <<>>

Init ==
    /\ \/ \E T \in 1..MaxSweeps, n \in 1..MaxRows :
            \E kinds \in [1..T -> TraceKinds] :
               /\ df = MockMultiDf([i \in 1..T |-> Trace(kinds[i], n)])
               /\ window \in 1..MaxWindow
               /\ step \in 1..MaxStep
               /\ call \in Calls
       \/ \E sc \in Scenarios :
               /\ df = MockMultiDf([i \in 1..sc.sweeps |-> Trace("saw", sc.rows)])
               /\ window = sc.window
               /\ step = sc.step
               /\ call = sc.call
    /\ Start

(* Inputs the code does not check: any integer window and step (zero and    *)
(* negative ones included), and frames whose sweeps differ in length, as    *)
(* read_abf builds them from segments of different lengths.                 *)
AbfDf(traces) ==
    PdConcat([i \in 1..Len(traces) |-> SweepName(i)],
             [i \in 1..Len(traces) |-> MockDf(traces[i])])

InitUnchecked ==
    /\ \/ \E T \in 1..MaxSweeps, n \in 1..MaxRows :
            \E kinds \in [1..T -> TraceKinds] :
               /\ df = MockMultiDf([i \in 1..T |-> Trace(kinds[i], n)])
               /\ window \in (0 - MaxStep)..MaxWindow
               /\ step \in (0 - MaxStep)..MaxStep
       \/ \E lens \in [1..MaxSweeps -> 1..MaxRows] :
            /\ \E i, j \in 1..MaxSweeps : lens[i] # lens[j]
            /\ df = AbfDf([i \in 1..MaxSweeps |-> Trace("saw", lens[i])])
            /\ window \in 1..MaxWindow
            /\ step \in 1..MaxStep
    /\ call \in Calls
    /\ Start

-----------------------------------------------------------------------------
(* Actions *)

(* Variant of Setup in which the two lists outlive the call (lists made     *)
(* once, as default arguments or module globals are).                       *)
SetupKeepingArrays ==
    /\ pc = "called"
    /\ gen' = NewGenerator
    /\ arrays' = arrays
    /\ names' = IF call.fn = "segment" \/ DivisionFails(step) THEN names
                 ELSE EpochData(df, window, step)
    /\ IF SetupError(call, build, step) # ""
       THEN /\ pc' = "raised"
            /\ err' = SetupError(call, build, step)
            /\ index' = index
       ELSE /\ pc' = "looping"
            /\ err' = err
            /\ index' = IF call.fn = "segment" THEN index
                         ELSE FromProduct(names'.sweep_names, names'.epoch_names,
                                          InnerIndex(call, window))
    /\ UNCHANGED <<df, window, step, call, yielded, table, build, calls, prev,
                   ii, ret, stack, pandas>>

(* The statements of the called function before its loop: the two lists are *)
(* made, the generator is created (not started), _epoch_data is called, the *)
(* index is built.                                                          *)
Setup ==
    /\ pc = "called"
    /\ gen' = NewGenerator
    /\ arrays' = NewArrays
    /\ names' = IF call.fn = "segment" \/ DivisionFails(step) THEN names
                 ELSE EpochData(df, window, step)
    /\ IF SetupError(call, build, step) # ""
       THEN /\ pc' = "raised"
            /\ err' = SetupError(call, build, step)
            /\ index' = index
       ELSE /\ pc' = "looping"
            /\ err' = err
            /\ index' = IF call.fn = "segment" THEN index
                         ELSE FromProduct(names'.sweep_names, names'.epoch_names,
                                          InnerIndex(call, window))
    /\ UNCHANGED <<df, window, step, call, yielded, table, build, calls, prev,
                   ii, ret, stack, pandas>>

(* One pass of the loop: the generator yields a slice and the loop body     *)
(* computes the statistic and appends it (or raises).                       *)
NextEpoch ==
    /\ pc = "looping"
    /\ LET r == GenNext(df, window, step, gen, pandas)
       IN  /\ r.kind = "yield"
           /\ gen' = r.gen
           /\ yielded' = Append(yielded, [sweep |-> df.levels0[r.gen.sweep],
                                          epoch |-> r.gen.epoch,
                                          data  |-> r.data])
           /\ LET b == EpochBody(r.data, call)
              IN  IF b.ok
                  THEN /\ arrays' = IF call.fn = "segment" THEN arrays
                                    ELSE [axis  |-> Append(arrays.axis, b.axis),
                                          value |-> Append(arrays.value, b.value)]
                       /\ UNCHANGED <<pc, err, stack>>
                  ELSE /\ pc' = "raised"
                       /\ err' = b.error
                       /\ arrays' = arrays
    /\ UNCHANGED <<df, window, step, call, names, index, table,
                   build, calls, prev, ii, ret, stack, pandas>>

(* Variant of Exhausted in which the new index is attached to the frame the *)
(* caller passed (set_index(..., inplace=True) on the argument itself).     *)
ExhaustedInPlace ==
    /\ pc = "looping"
    /\ LET r == GenNext(df, window, step, gen, pandas)
       IN  /\ r.kind = "stop"
           /\ gen' = r.gen
           /\ IF call.fn = "segment"
              THEN /\ pc' = "returned"
                   /\ UNCHANGED <<df, table, err, stack>>
              ELSE LET t == Assemble(arrays.axis, arrays.value, index)
                   IN  IF t.ok
                       THEN /\ pc' = "returned"
                            /\ table' = t.table
                            /\ err' = err
                            /\ df' = [df EXCEPT !.levels0 = names.epoch_names]
                       ELSE /\ pc' = "raised"
                            /\ err' = t.error
                            /\ table' = table
                            /\ df' = df
    /\ UNCHANGED <<window, step, call, yielded, names, index, arrays,
                   build, calls, prev, ii, ret, stack, pandas>>

(* The generator is exhausted: the loop ends and the table is assembled in  *)
(* a new DataFrame, to which the local name df is rebound; the index is     *)
(* attached to that new frame.                                              *)
Exhausted ==
    /\ pc = "looping"
    /\ LET r == GenNext(df, window, step, gen, pandas)
       IN  /\ r.kind = "stop"
           /\ gen' = r.gen
           /\ IF call.fn = "segment"
              THEN /\ pc' = "returned"
                   /\ UNCHANGED <<table, err, stack>>
              ELSE LET t == Assemble(arrays.axis, arrays.value, index)
                   IN  IF t.ok
                       THEN /\ pc' = "returned"
                            /\ table' = t.table
                            /\ err' = err
                       ELSE /\ pc' = "raised"
                            /\ err' = t.error
                            /\ table' = table
    /\ UNCHANGED <<df, window, step, call, yielded, names, index, arrays,
                   build, calls, prev, ii, ret, stack, pandas>>

(* The generator raises on its first next(): the division, the epoch guard *)
(* or the indexing of the first sweep.                                      *)
GenRaise ==
    /\ pc = "looping"
    /\ LET r == GenNext(df, window, step, gen, pandas)
       IN  /\ r.kind = "raise"
           /\ gen' = r.gen
           /\ pc' = "raised"
           /\ err' = r.error
    /\ UNCHANGED <<df, window, step, call, yielded, names, index, arrays, table,
                   build, calls, prev, ii, ret, stack, pandas>>

Next == Setup \/ NextEpoch \/ Exhausted \/ GenRaise

Spec == Init /\ [][Next]_vars

SpecUnchecked == InitUnchecked /\ [][Next]_vars

(* The frames a caller passes to a second call with the same configuration: *)
(* the same frame again, or one in which one sweep holds other samples.     *)
SecondFrames(d) ==
    {d} \cup
    {[d EXCEPT !.blocks[i].rows = MockDf(Trace(k, Len(d.blocks[i].rows)))] :
        i \in 1..Len(d.blocks), k \in TraceKinds}

(* The caller, after the first call has returned or raised, calls the same  *)
(* function again with the same configuration.  The outcome of the first    *)
(* call is kept in prev; nothing of the first call is handed to the second. *)
CallAgain ==
    /\ pc \in {"returned", "raised"}
    /\ calls = 1
    /\ calls' = 2
    /\ prev' = [made |-> TRUE, df |-> df, pc |-> pc, table |-> table, err |-> err]
    /\ df' \in SecondFrames(df)
    /\ pc' = "called"
    /\ yielded' = <<>>
    /\ table' = <<>>
    /\ err' = ""
    /\ UNCHANGED <<window, step, call, gen, names, index, arrays, build, ii, ret, stack,
                   pandas>>

NextTwice == Next \/ CallAgain

(* The calls that are made twice: on the small frames every function with   *)
(* an existing channel (the histogram with the most bins and the top range  *)
(* end), and the fixed larger scenarios.                                    *)
TwiceCalls ==
    SegmentCalls
    \cup {c \in HistCalls : c.channel = "primary" /\ c.num_bins = MaxBins
                              /\ \A e \in RangeEnds : e <= c.hist_max}
    \cup {c \in KdeCalls : c.channel = "primary"}
    \cup {c \in PgramCalls : c.channel = "primary"}

InitTwice ==
    /\ Init
    /\ call \in TwiceCalls \/ Len(df.blocks[1].rows) > MaxRows

SpecTwice == InitTwice /\ [][NextTwice]_vars

-----------------------------------------------------------------------------
(* Vocabulary of the properties, stated from the input frame itself *)

NumTrials == Len(df.blocks)

RowsPerTrial == Len(df.blocks[1].rows)

(* floor(1 + (rows - window) / step) *)
FloorEpochs == Floor(step + RowsPerTrial - window, step)

(* The samples of trial t (1-based, in the frame's order) at the 0-based    *)
(* positions i*step .. i*step + window - 1, in their original order.        *)
EpochOf(t, i) == [j \in 1..window |-> df.blocks[t].rows[i * step + j]]

(* The position of a sweep name among the frame's trials *)
TrialOf(sweep) == CHOOSE t \in 1..NumTrials : df.blocks[t].sweep = sweep

(* The output length the statistic called is documented to have *)
OutputLength ==
    CASE call.fn = "hist"  -> call.num_bins
      [] call.fn = "kde"   -> IF call.resolution # <<>> THEN call.resolution[1]
                              ELSE (5 * Abs(call.range_max - call.range_min)) \div 2
      [] call.fn = "pgram" -> (window \div 2) + 1
      [] OTHER             -> 0

IsStatistic == call.fn \in {"hist", "kde", "pgram"}

RECURSIVE SumSeq(_)
SumSeq(q) == IF q = <<>> THEN 0 ELSE Head(q) + SumSeq(Tail(q))

(* The number a sequence of decimal digits writes *)
RECURSIVE DigitsValue(_)
DigitsValue(ds) ==
    IF ds = <<>> THEN 0 ELSE 10 * DigitsValue(SubSeq(ds, 1, Len(ds) - 1)) + ds[Len(ds)]

(* a sorts strictly before b as a string of digits *)
LexLess(a, b) ==
    \E p \in 1..(Len(b)) :
        /\ \A q \in 1..(p - 1) : q <= Len(a) /\ a[q] = b[q]
        /\ \/ p = Len(a) + 1
           \/ (p <= Len(a) /\ a[p] < b[p])

-----------------------------------------------------------------------------
(* C1: in the table a statistic returns, the row labelled (sweep t, epoch   *)
(* e, position k) holds the k-th output of the statistic computed on        *)
(* exactly the samples of epoch e of sweep t; the labels are the ordered    *)
(* product sweep_names x epoch_names x 0..output_length-1 and the data are  *)
(* in the order the generator yielded the slices.                           *)
C1_RowsLabelled ==
    (pc = "returned" /\ IsStatistic) =>
        LET E == Len(names.epoch_names)
            L == OutputLength
        IN  /\ Len(table) = NumTrials * E * L
            /\ Len(yielded) = NumTrials * E
            /\ \A t \in 1..NumTrials : \A e \in 0..(E - 1) :
                  LET out == EpochBody(EpochOf(t, e), call)
                      m   == (t - 1) * E + e + 1
                  IN  /\ yielded[m].data = EpochOf(t, e)
                      /\ \A k \in 0..(L - 1) :
                            LET row == table[(m - 1) * L + k + 1]
                            IN  /\ row.label = <<names.sweep_names[t],
                                                 names.epoch_names[e + 1], k>>
                                /\ row.label[1] = df.blocks[t].sweep
                                /\ row.value = out.value[k + 1]
                                /\ RatEq(row.axis, out.axis[k + 1])

C1_Witness ==
    /\ pc = "returned"
    /\ call.fn = "hist"
    /\ NumTrials = 2
    /\ Len(names.epoch_names) = 2
    /\ call.num_bins = 2
    /\ table[1].value # table[2].value
    /\ table[1].value # table[3].value
    /\ table[1].value # table[5].value

-----------------------------------------------------------------------------
(* C2 as stated: for all inputs, the number of epochs computed by           *)
(* _create_epoch and by _epoch_data equals floor(1 + (rows - window)/step). *)
C2_FloorForAllInputs ==
    /\ gen.state # "created" => gen.num_epochs = FloorEpochs
    /\ (pc # "called" /\ IsStatistic) => names.num_epochs = FloorEpochs

(* Where the configuration is one the functions are documented for (sweeps *)
(* of equal length, a positive step, a window from 1 to the rows of a       *)
(* trial), the truncated                                                    *)
(* quotient is the floor, 4 for rows 20, window 5, step 5, and 1 whenever   *)
(* window = rows; the two differ only where 1 + (rows - window)/step is     *)
(* negative, that is for a window or a step the code fails to refuse.       *)
FloorOnValidConfiguration ==
    LET Right(n) ==
            /\ n = FloorEpochs
            /\ window = RowsPerTrial => n = 1
            /\ (RowsPerTrial = 20 /\ window = 5 /\ step = 5) => n = 4
    IN  (step > 0 /\ window > 0 /\ window <= RowsPerTrial) =>
            /\ gen.state # "created" => Right(gen.num_epochs)
            /\ (pc # "called" /\ IsStatistic) => Right(names.num_epochs)

-----------------------------------------------------------------------------
(* C3 as stated: whenever the number of epochs is >= 1000 segmentation      *)
(* fails: no slice is yielded and no call returns.                          *)
C3_CapRejects ==
    FloorEpochs >= EpochCap => (yielded = <<>> /\ pc # "returned")

-----------------------------------------------------------------------------
(* C4: with fewer than 1000 epochs per trial, every slice the generator     *)
(* yields holds exactly window samples, and once it is exhausted it has     *)
(* yielded exactly num_trials * num_epochs slices (range(num_epochs) being  *)
(* empty for a num_epochs that is not positive).                            *)
C4_SliceCountAndLength ==
    (gen.state # "created" /\ gen.num_epochs < EpochCap) =>
        /\ \A m \in 1..Len(yielded) : Len(yielded[m].data) = window
        /\ gen.state = "finished" =>
              Len(yielded) = NumTrials * Max(gen.num_epochs, 0)

C4_Witness ==
    /\ gen.state = "finished"
    /\ NumTrials = 2
    /\ window = 2 /\ step = 1
    /\ gen.num_epochs = 2
    /\ Len(yielded) = 4

-----------------------------------------------------------------------------
(* C5: the i-th slice (0-based) yielded for trial t is exactly the samples  *)
(* of t at positions i*step .. i*step + window - 1 in their original order; *)
(* samples at positions >= (num_epochs - 1)*step + window are in no slice   *)
(* and cause no error.  (yielded only grows, so the property is stated of   *)
(* the slice yielded last, in every state.)                                 *)
C5_SliceContents ==
    /\ yielded # <<>> =>
          LET m == Len(yielded)
              t == TrialOf(yielded[m].sweep)
              i == Cardinality({m2 \in 1..(m - 1) : yielded[m2].sweep = yielded[m].sweep})
          IN  /\ yielded[m].data = EpochOf(t, i)
              /\ \A j \in 1..Len(yielded[m].data) :
                    /\ yielded[m].data[j].index = i * step + j - 1
                    /\ yielded[m].data[j].index < (gen.num_epochs - 1) * step + window
    /\ (call.fn = "segment" /\ gen.state = "finished" /\ gen.num_epochs <= EpochCap) =>
          (pc = "returned" /\ err = "")

C5_Witness ==
    /\ call.fn = "segment"
    /\ pc = "returned"
    /\ RowsPerTrial = 3 /\ window = 2 /\ step = 2
    /\ Len(yielded) = NumTrials
    /\ \A m \in 1..Len(yielded) : \A j \in 1..Len(yielded[m].data) :
          yielded[m].data[j].index # 2

-----------------------------------------------------------------------------
(* C6: the slices are yielded trial by trial, in the order the trials occur *)
(* in the input series, and within a trial by ascending epoch index: the    *)
(* slice yielded last comes after every earlier one in that order.          *)
C6_YieldOrder ==
    \A m2 \in {Len(yielded)} : \A m1 \in 1..(m2 - 1) :
        /\ TrialOf(yielded[m1].sweep) <= TrialOf(yielded[m2].sweep)
        /\ yielded[m1].sweep = yielded[m2].sweep =>
              /\ yielded[m1].epoch < yielded[m2].epoch
              /\ yielded[m1].data[1].index < yielded[m2].data[1].index

C6_Witness ==
    /\ gen.state = "finished"
    /\ NumTrials = 2
    /\ Len(yielded) = 6
    /\ yielded[3].sweep # yielded[4].sweep

-----------------------------------------------------------------------------
(* C7 as stated: for every configuration segmentation accepts, epoch i is   *)
(* named "epoch" followed by i+1 zero-padded to exactly three digits, so    *)
(* the names are distinct, equally long and sort in epoch order; the trial  *)
(* names are the input's trial identifiers unchanged.                       *)
C7_EpochNames ==
    (IsStatistic /\ gen.state # "created" /\ err # "ValueError: too many epochs") =>
        /\ \A i \in 1..Len(names.epoch_names) :
              /\ names.epoch_names[i][1] = "epoch"
              /\ Len(names.epoch_names[i][2]) = 3
              /\ DigitsValue(names.epoch_names[i][2]) = i
        /\ \A i \in 1..(Len(names.epoch_names) - 1) :
              LexLess(names.epoch_names[i][2], names.epoch_names[i + 1][2])
        /\ names.sweep_names = [t \in 1..NumTrials |-> df.blocks[t].sweep]

-----------------------------------------------------------------------------
(* C8 as stated: every statistic returns a table of exactly num_trials *    *)
(* num_epochs * output_length rows (num_bins, resolution, floor(window/2)+1 *)
(* respectively), and attaching the index built up front never fails;       *)
(* 2 trials x 20 rows, window 5, step 5, 10 bins give 80 rows.              *)
C8_RowCount ==
    IsStatistic =>
        /\ err # "ValueError: length mismatch"
        /\ pc = "returned" =>
              /\ Len(table) = NumTrials * gen.num_epochs * OutputLength
              /\ Len(index) = Len(table)
              /\ (NumTrials = 2 /\ RowsPerTrial = 20 /\ window = 5 /\ step = 5
                    /\ call.fn = "hist" /\ call.num_bins = 10) => Len(table) = 80

-----------------------------------------------------------------------------
(* The range np.histogram bins over (stored doubled): the one given, or,    *)
(* when hist_min = hist_max, that value widened by 0.5 on both sides.       *)
BinnedLow == IF call.hist_min = call.hist_max THEN call.hist_min - 1 ELSE call.hist_min

BinnedHigh == IF call.hist_min = call.hist_max THEN call.hist_max + 1 ELSE call.hist_max

(* The 'bin' column of the rows of the m-th epoch, and its counts *)
BinsOfEpoch(m) == [k \in 1..call.num_bins |-> table[(m - 1) * call.num_bins + k].axis]

CountsOfEpoch(m) == [k \in 1..call.num_bins |-> table[(m - 1) * call.num_bins + k].value]

(* C9 as stated: every epoch contributes exactly num_bins rows; the 'bin'   *)
(* value at position k is hist_min + k*(hist_max - hist_min)/num_bins and   *)
(* hist_max never appears in the 'bin' column.                              *)
C9_LeftEdgesOfGivenRange ==
    (pc = "returned" /\ call.fn = "hist") =>
        /\ Len(table) = Len(yielded) * call.num_bins
        /\ \A m \in 1..Len(yielded) : \A k \in 0..(call.num_bins - 1) :
              /\ RatEq(BinsOfEpoch(m)[k + 1],
                       Rat(call.hist_min * call.num_bins
                             + k * (call.hist_max - call.hist_min),
                           2 * call.num_bins))
              /\ ~RatEq(BinsOfEpoch(m)[k + 1], Rat(call.hist_max, 2))

(* C9 amended: every epoch contributes exactly num_bins rows; with lo, hi   *)
(* the range binned over (hist_min, hist_max when hist_min < hist_max;      *)
(* hist_min - 0.5, hist_max + 0.5 when they are equal) the 'bin' value at   *)
(* position k is lo + k*(hi - lo)/num_bins, and hi never appears.           *)
C9_LeftEdgesOfBinnedRange ==
    (pc = "returned" /\ call.fn = "hist") =>
        /\ Len(table) = Len(yielded) * call.num_bins
        /\ \A m \in 1..Len(yielded) : \A k \in 0..(call.num_bins - 1) :
              /\ RatEq(BinsOfEpoch(m)[k + 1],
                       Rat(BinnedLow * call.num_bins + k * (BinnedHigh - BinnedLow),
                           2 * call.num_bins))
              /\ ~RatEq(BinsOfEpoch(m)[k + 1], Rat(BinnedHigh, 2))

C9_Witness ==
    /\ pc = "returned"
    /\ call.fn = "hist"
    /\ call.hist_min < call.hist_max
    /\ call.num_bins = 2
    /\ Len(table) = 4
    /\ RatEq(table[2].axis, Rat(call.hist_min + call.hist_max, 4))

-----------------------------------------------------------------------------
(* The channel samples of the m-th epoch *)
SamplesOfEpoch(m) == ChannelValues(yielded[m].data)

(* C10 as stated: for every epoch the counts over the num_bins bins sum to  *)
(* the number of its samples v with hist_min <= v <= hist_max.              *)
C10_CountsSamplesInGivenRange ==
    (pc = "returned" /\ call.fn = "hist") =>
        \A m \in 1..Len(yielded) :
            SumSeq(CountsOfEpoch(m)) =
                Cardinality({p \in 1..Len(SamplesOfEpoch(m)) :
                    /\ call.hist_min <= SamplesOfEpoch(m)[p]
                    /\ SamplesOfEpoch(m)[p] <= call.hist_max})

(* C10 amended: for every epoch the counts sum to the number of its samples *)
(* v with lo <= v <= hi, lo and hi being hist_min and hist_max when         *)
(* hist_min < hist_max and hist_min - 0.5, hist_max + 0.5 when they are     *)
(* equal; samples outside [lo, hi] are counted in no bin.                   *)
C10_CountsSamplesInBinnedRange ==
    (pc = "returned" /\ call.fn = "hist") =>
        \A m \in 1..Len(yielded) :
            SumSeq(CountsOfEpoch(m)) =
                Cardinality({p \in 1..Len(SamplesOfEpoch(m)) :
                    /\ BinnedLow <= SamplesOfEpoch(m)[p]
                    /\ SamplesOfEpoch(m)[p] <= BinnedHigh})

C10_Witness ==
    /\ pc = "returned"
    /\ call.fn = "hist"
    /\ call.hist_min < call.hist_max
    /\ \E m \in 1..Len(yielded) :
          /\ \E p \in 1..Len(SamplesOfEpoch(m)) : SamplesOfEpoch(m)[p] > call.hist_max
          /\ \E p \in 1..Len(SamplesOfEpoch(m)) : SamplesOfEpoch(m)[p] = call.hist_max
          /\ SumSeq(CountsOfEpoch(m)) = 2
          /\ Len(SamplesOfEpoch(m)) = 3

-----------------------------------------------------------------------------
(* a - b for two fractions *)
RatSub(a, b) == Rat(a.num * b.den - b.num * a.den, a.den * b.den)

(* The 'x' column of the rows of the m-th epoch when each epoch has R rows  *)
GridOfEpoch(m, R) == [k \in 1..R |-> table[(m - 1) * R + k].axis]

(* C11 as stated: epoch_kde gives every epoch exactly resolution rows, and  *)
(* 5 * |range_max - range_min| rows when resolution is not given: the grid  *)
(* and the index made from that number never make the call fail, and in the *)
(* table every epoch has that many rows, whose x values start at range_min, *)
(* end at range_max and are evenly spaced.                                  *)
C11_KdeGrid ==
    call.fn = "kde" =>
        LET twiceR == IF call.resolution # <<>> THEN 2 * call.resolution[1]
                      ELSE 5 * Abs(call.range_max - call.range_min)
            R      == twiceR \div 2
        IN  /\ err \notin {"TypeError: linspace", "ValueError: linspace",
                           "ValueError: length mismatch"}
            /\ pc = "returned" =>
                  /\ 2 * Len(table) = Len(yielded) * twiceR
                  /\ \A m \in 1..Len(yielded) :
                        LET x == GridOfEpoch(m, R)
                        IN  R >= 1 =>
                              /\ RatEq(x[1], Rat(call.range_min, 2))
                              /\ RatEq(x[R], Rat(call.range_max, 2))
                              /\ \A k \in 1..(R - 2) :
                                    RatEq(RatSub(x[k + 1], x[k]),
                                          RatSub(x[k + 2], x[k + 1]))

-----------------------------------------------------------------------------
(* a < b for two fractions with positive denominators *)
RatLess(a, b) == a.num * b.den < b.num * a.den

(* The frequencies periodogram handed back for the m-th epoch *)
FreqsOfEpoch(m) == arrays.axis[m]

(* What C12 says of the frequencies of every epoch but the last value *)
FreqsRise(f) ==
    /\ Len(f) = (window \div 2) + 1
    /\ RatEq(f[1], Rat(0, 1))
    /\ \A k \in 1..(Len(f) - 1) : RatLess(f[k], f[k + 1])

(* The table a returned epoch_pgram call gives holds these frequencies *)
FreqsReported ==
    pc = "returned" =>
        \A m \in 1..Len(arrays.axis) : \A k \in 1..Len(FreqsOfEpoch(m)) :
            table[(m - 1) * Len(FreqsOfEpoch(m)) + k].axis = FreqsOfEpoch(m)[k]

(* C12 as stated: for every positive integer window and fs the frequencies  *)
(* epoch_pgram has for one epoch are floor(window/2) + 1 values, strictly   *)
(* increasing, the first 0 and the last fs/2.                               *)
C12_FrequenciesToNyquist ==
    call.fn = "pgram" =>
        /\ \A m \in 1..Len(arrays.axis) :
              /\ FreqsRise(FreqsOfEpoch(m))
              /\ RatEq(FreqsOfEpoch(m)[Len(FreqsOfEpoch(m))], Rat(call.fs, 2))
        /\ FreqsReported

(* C12 amended: they are the floor(window/2) + 1 values k * fs / window,    *)
(* strictly increasing from 0; the last is fs/2 when window is even and     *)
(* (window - 1) * fs / (2 * window), below fs/2, when window is odd.        *)
C12_FrequenciesOfWindow ==
    call.fn = "pgram" =>
        /\ \A m \in 1..Len(arrays.axis) :
              LET f == FreqsOfEpoch(m)
              IN  /\ FreqsRise(f)
                  /\ \A k \in 1..Len(f) : RatEq(f[k], Rat((k - 1) * call.fs, window))
                  /\ window % 2 = 0 => RatEq(f[Len(f)], Rat(call.fs, 2))
                  /\ window % 2 = 1 =>
                        /\ RatEq(f[Len(f)], Rat((window - 1) * call.fs, 2 * window))
                        /\ RatLess(f[Len(f)], Rat(call.fs, 2))
        /\ FreqsReported

C12_Witness ==
    /\ call.fn = "pgram"
    /\ pc = "returned"
    /\ window = 2
    /\ call.fs = 3
    /\ Len(table) >= 4
    /\ RatEq(table[3].axis, Rat(0, 1))
    /\ RatEq(table[4].axis, Rat(3, 2))

-----------------------------------------------------------------------------
(* All sweeps of the frame have the same number of rows *)
EqualLength ==
    \A i, j \in 1..Len(df.blocks) : Len(df.blocks[i].rows) = Len(df.blocks[j].rows)

(* C13 as stated: a call of epoch_hist, epoch_kde or epoch_pgram with       *)
(* window <= 0, step <= 0 or window greater than the rows of a trial fails: *)
(* it never returns a table and never yields a slice whose length differs   *)
(* from window.                                                             *)
C13_ConfigRejected ==
    (IsStatistic /\ EqualLength
       /\ (window <= 0 \/ step <= 0 \/ window > RowsPerTrial)) =>
        /\ pc # "returned"
        /\ yielded # <<>> => Len(yielded[Len(yielded)].data) = window

-----------------------------------------------------------------------------
(* C14 as stated: when the trials do not all have the same number of rows,  *)
(* segmentation fails instead of yielding slices: no slice is yielded, no   *)
(* call returns, and no trial is cut by another trial's row count.          *)
C14_RaggedRejected ==
    ~EqualLength => (yielded = <<>> /\ pc # "returned")

-----------------------------------------------------------------------------
(* The channel asked for is not a column of the frame *)
MissingChannel == IsStatistic /\ call.channel \notin Columns

(* C15 as stated: asking for a channel that is no column makes epoch_hist,  *)
(* epoch_kde and epoch_pgram raise a missing-channel error before the       *)
(* statistic of any epoch has been computed, and no table is returned.      *)
C15_MissingChannelError ==
    MissingChannel =>
        /\ pc # "returned"
        /\ arrays.value = <<>>
        /\ pc = "raised" => err = "KeyError: channel"
        /\ gen.state = "finished" => pc = "raised"

(* Where nothing else fails first (a pandas with DataFrame.ix, a window     *)
(* no longer than a trial, at most 1000 epochs, statements before the loop  *)
(* that numpy accepts), the lookup epoch[channel] of the first epoch raises *)
(* the KeyError, before any statistic, and no table is returned.            *)
MissingChannelAtFirstEpoch ==
    (MissingChannel /\ HasIx(pandas) /\ window <= RowsPerTrial
       /\ FloorEpochs <= EpochCap /\ SetupError(call, build, step) = "") =>
        /\ pc # "returned"
        /\ arrays.value = <<>>
        /\ pc = "raised" => (err = "KeyError: channel" /\ Len(yielded) = 1)
        /\ gen.state = "finished" => pc = "raised"

-----------------------------------------------------------------------------
(* The statistic of a slice cannot be computed: the KDE of fewer than two   *)
(* samples or of equal samples, a histogram over a range with               *)
(* hist_min > hist_max.                                                     *)
StatisticFails(slice) ==
    \/ call.fn = "kde" /\ ~KdeEstimable(ChannelValues(slice))
    \/ call.fn = "hist" /\ call.hist_min > call.hist_max

FailureOf(slice) ==
    IF call.fn = "kde" THEN KdeError(ChannelValues(slice)) ELSE "ValueError: histogram"

(* C16: when the statistic of one epoch fails, the call fails with that     *)
(* error in the same step: the results of the epochs before it are in no    *)
(* table, and a call that has raised takes no further step (the error is    *)
(* not caught, nothing is retried, no later epoch is tried).                *)
C16_FailurePropagates ==
    [][/\ pc # "raised"
       /\ (IsStatistic /\ call.channel \in Columns
             /\ Len(yielded') = Len(yielded) + 1
             /\ StatisticFails(yielded'[Len(yielded')].data)) =>
               /\ pc' = "raised"
               /\ err' = FailureOf(yielded'[Len(yielded')].data)
               /\ table' = <<>>
               /\ arrays' = arrays]_vars

C16_Witness ==
    /\ call.fn = "kde"
    /\ pc = "raised"
    /\ err = "LinAlgError: gaussian_kde"
    /\ Len(yielded) = 3
    /\ Len(arrays.value) = 2
    /\ table = <<>>

-----------------------------------------------------------------------------
(* The second call is over *)
SecondCallOver == calls = 2 /\ pc \in {"returned", "raised"}

(* C17: a second call with the same frame and the same configuration ends   *)
(* as the first did: it returns exactly when the first returned, with an    *)
(* identical table (or raises the same error); nothing of the first call    *)
(* is carried into the second.                                              *)
C17_SameCallSameTable ==
    (SecondCallOver /\ df = prev.df) =>
        /\ pc = prev.pc
        /\ table = prev.table
        /\ err = prev.err

C17_Witness ==
    /\ SecondCallOver
    /\ df = prev.df
    /\ call.fn = "hist"
    /\ pc = "returned"
    /\ NumTrials = 2
    /\ Len(table) = 8
    /\ table[1].value # table[2].value

-----------------------------------------------------------------------------
(* The channel samples of frame d at the positions of epoch e (0-based) of  *)
(* trial t                                                                  *)
EpochSamples(d, t, e) ==
    [j \in 1..window |-> d.blocks[t].rows[e * step + j].primary]

(* The rows of epoch e of trial t in a table tb of E epochs per trial *)
RowsOfEpoch(tb, t, e, E) ==
    LET L == Len(tb) \div (NumTrials * E)
    IN  SubSeq(tb, ((t - 1) * E + e) * L + 1, ((t - 1) * E + e + 1) * L)

(* C18: two calls with the same configuration on two frames that agree on   *)
(* the samples at positions e*step .. e*step+window-1 of trial t return the *)
(* same rows for epoch (t, e), whatever the frames hold elsewhere and       *)
(* whatever the rows of the other epochs are.                               *)
C18_EpochRowsIndependent ==
    (SecondCallOver /\ IsStatistic /\ pc = "returned" /\ prev.pc = "returned") =>
        LET E == Len(names.epoch_names)
        IN  /\ Len(table) = Len(prev.table)
            /\ \A t \in 1..NumTrials : \A e \in 0..(E - 1) :
                  EpochSamples(df, t, e) = EpochSamples(prev.df, t, e) =>
                      RowsOfEpoch(table, t, e, E) = RowsOfEpoch(prev.table, t, e, E)

C18_Witness ==
    /\ SecondCallOver
    /\ call.fn = "hist"
    /\ pc = "returned"
    /\ prev.pc = "returned"
    /\ table # prev.table
    /\ \E t \in 1..NumTrials : \E e \in 1..(Len(names.epoch_names) - 1) :
          /\ df.blocks[t] # prev.df.blocks[t]
          /\ EpochSamples(df, t, e) = EpochSamples(prev.df, t, e)
          /\ EpochSamples(df, t, e - 1) # EpochSamples(prev.df, t, e - 1)
          /\ RowsOfEpoch(table, t, e, Len(names.epoch_names)) # <<>>

-----------------------------------------------------------------------------
(* C19: no step of _create_epoch, epoch_hist, epoch_kde or epoch_pgram      *)
(* changes the frame the caller passed: when the generator is exhausted or  *)
(* the call has returned or raised, every value, row label and sweep of the *)
(* frame is what it was before the call.                                    *)
C19_InputUnchanged == [][df' = df]_vars

C19_Witness ==
    /\ call.fn = "hist"
    /\ pc = "returned"
    /\ table # <<>>
    /\ df = MockMultiDf(<<Trace("saw", 3), Trace("alt", 3)>>)

-----------------------------------------------------------------------------
(* read_abf._all_ints *)

MaxLen == 3

(* Python values with their type and their text: the ints, strings and     *)
(* float of the repository's test of _all_ints.                             *)
Values ==
    {[type |-> "int", value |-> "54321"], [type |-> "int", value |-> "12345"],
     [type |-> "str", value |-> "test"], [type |-> "str", value |-> "12345"],
     [type |-> "float", value |-> "12.34"]}

(* isinstance(x, t) for the types above *)
IsInstance(x, t) == x.type = t

(* Variant of AllInts: any() in place of all() *)
RECURSIVE AnyInts(_)
AnyInts(items) ==
    IF items = <<>> THEN FALSE
    ELSE IF IsInstance(Head(items), "int") THEN TRUE
    ELSE AnyInts(Tail(items))

(* all(isinstance(i, int) for i in ii): the elements are tested in order    *)
(* and the first that fails ends the scan with False.                       *)
RECURSIVE AllInts(_)
AllInts(items) ==
    IF items = <<>> THEN TRUE
    ELSE IF ~IsInstance(Head(items), "int") THEN FALSE
    ELSE AllInts(Tail(items))

(* Variant of AllStrs: only the first element is tested *)
FirstIsStr(items) == items = <<>> \/ IsInstance(Head(items), "str")

(* all(isinstance(i, str) for i in ii) *)
RECURSIVE AllStrs(_)
AllStrs(items) ==
    IF items = <<>> THEN TRUE
    ELSE IF ~IsInstance(Head(items), "str") THEN FALSE
    ELSE AllStrs(Tail(items))

(* The lists and tuples of at most MaxLen values *)
Arguments ==
    {[container |-> c, items |-> q] :
        c \in {"list", "tuple"},
        q \in UNION {[1..n -> Values] : n \in 0..MaxLen}}

(* The elements of a sweep_list: sweep numbers, sweep names and a float     *)
(* (the lists of the docstrings, [1,4,6] and ['sweep001', ...], and of the  *)
(* test that is on hold, [1,4,5.23]).  value is the element's text, its     *)
(* letters and its digits.                                                  *)
SweepValues ==
    {[type |-> "int", value |-> <<"", Str(i)>>] : i \in 1..(MaxSweeps + 1)}
    \cup {[type |-> "str", value |-> SweepName(i)] : i \in 1..(MaxSweeps + 1)}
    \cup {[type |-> "float", value |-> <<"5.23", <<>>>>]}

SweepLists ==
    {[container |-> "list", items |-> q] :
        q \in UNION {[1..n -> SweepValues] : n \in 0..MaxLen}}

(* Variant of SweepLabel: the four digits of read_pv's 'Sweep' labels *)
SweepLabelWide(x) == <<"sweep" \o x.value[1], Zfill(x.value[2], 4)>>

(* 'sweep' + str(i).zfill(3) for an int i of the list *)
SweepLabel(x) == <<"sweep" \o x.value[1], Zfill(x.value[2], 3)>>

(* The type checks at the head of keep_sweeps and drop_sweeps: the labels   *)
(* of an all-int list, the list itself when all strings, else TypeError.    *)
SweepLabels(items) ==
    IF AllInts(items)
    THEN [err |-> "", labels |-> [p \in 1..Len(items) |-> SweepLabel(items[p])]]
    ELSE IF AllStrs(items)
    THEN [err |-> "", labels |-> [p \in 1..Len(items) |-> items[p].value]]
    ELSE [err |-> "TypeError", labels |-> <<>>]

(* df.loc[keys] with a list of level-0 labels differs between pandas        *)
(* builds: since 1.4 a label without rows raises KeyError and the blocks    *)
(* come in key order; before, such labels are passed over and the blocks    *)
(* come in the frame's order.                                               *)
LocBuilds == {"KeyError", "ignores"}

RECURSIVE BlocksOfKeys(_, _)
BlocksOfKeys(d, keys) ==
    IF keys = <<>> THEN <<>>
    ELSE SelectSeq(d.blocks, LAMBDA x : x.sweep = Head(keys))
            \o BlocksOfKeys(d, Tail(keys))

(* The levels of the index are kept as they are: labels that lose their     *)
(* rows stay in df.index.levels[0].                                         *)
Loc(d, keys, b) ==
    LET keyset == {keys[p] : p \in 1..Len(keys)}
    IN  IF b = "KeyError" /\ \E k \in keyset : ~HasSweep(d, k)
        THEN [err |-> "KeyError", frame |-> <<>>]
        ELSE [err |-> "",
              frame |-> [levels0   |-> d.levels0,
                         levshape1 |-> d.levshape1,
                         blocks    |-> IF b = "KeyError"
                                       THEN BlocksOfKeys(d, keys)
                                       ELSE SelectSeq(d.blocks,
                                                LAMBDA x : x.sweep \in keyset)]]

(* keep_sweeps(df, sweep_list) *)
KeepSweeps(d, items, b) ==
    LET l == SweepLabels(items)
    IN  IF l.err # "" THEN [err |-> l.err, frame |-> <<>>]
        ELSE Loc(d, l.labels, b)

(* set(all_sweeps) ^ set(drop_sweeps), all_sweeps being the level-0 labels  *)
SymmetricDifference(d, labels) ==
    LET all_sweeps == {d.levels0[i] : i \in 1..Len(d.levels0)}
        drop       == {labels[p] : p \in 1..Len(labels)}
    IN  (all_sweeps \ drop) \cup (drop \ all_sweeps)

(* list(a_set): the elements once each, in an order the build decides *)
ListsOf(S) ==
    {q \in [1..Cardinality(S) -> S] :
        \A i, j \in 1..Cardinality(S) : i # j => q[i] # q[j]}

(* drop_sweeps(df, sweep_list), keep_sweeps being the list that            *)
(* list(set(all_sweeps) ^ set(drop_sweeps)) made                            *)
DropSweeps(d, items, b, keep_sweeps) ==
    LET l == SweepLabels(items)
        all_sweeps == {d.levels0[i] : i \in 1..Len(d.levels0)}
    IN  IF l.err # "" THEN [err |-> l.err, frame |-> <<>>]
        ELSE IF l.labels = <<>> THEN [err |-> "IndexError", frame |-> <<>>]
        ELSE IF l.labels[1] \notin all_sweeps
        THEN [err |-> "KeyError", frame |-> <<>>]
        ELSE Loc(d, keep_sweeps, b)

(* The frames handed to keep_sweeps and drop_sweeps: mock_multidf frames    *)
(* of one row per sweep, and what keep_sweeps returned for one of them      *)
(* (a frame whose index keeps the labels of the sweeps it lost).            *)
SweepFrame(T) == MockMultiDf([i \in 1..T |-> <<i>>])

SweepFrames ==
    {SweepFrame(T) : T \in 1..MaxSweeps}
    \cup {Loc(SweepFrame(T), <<SweepName(k)>>, "ignores").frame :
              T \in 2..MaxSweeps, k \in 1..MaxSweeps}

(* What df.loc does on a build of pandas: labels without rows raise from   *)
(* 1.4 on.                                                                  *)
LocBuildsOn(p) ==
    IF p = "before 1.0" THEN {"ignores"}
    ELSE IF p = "3" THEN {"KeyError"}
    ELSE LocBuilds

InitReadAbf ==
    /\ pandas \in PandasBuilds
    /\ \/ /\ ii \in Arguments
          /\ df = MockMultiDf(<<>>)
          /\ call \in {[fn |-> "_all_ints"], [fn |-> "_all_strs"]}
          /\ build = "TypeError"
       \/ /\ ii \in SweepLists
          /\ df \in SweepFrames
          /\ call \in {[fn |-> "keep_sweeps"], [fn |-> "drop_sweeps"]}
          /\ build \in LocBuildsOn(pandas)
    /\ ret = <<>>
    /\ window = 1
    /\ step = 1
    /\ pc = "idle"
    /\ calls = 0
    /\ prev = NoCall
    /\ gen = NewGenerator
    /\ yielded = <<>>
    /\ names = [num_epochs |-> 0, sweep_names |-> <<>>, epoch_names |-> <<>>]
    /\ index = <<>>
    /\ arrays = NewArrays
    /\ table = <<>>
    /\ err = ""
    /\ stack = <<>>

(* _all_ints(ii) is called and returns *)
CallAllInts ==
    /\ call.fn = "_all_ints"
    /\ ret = <<>>
    /\ ret' = <<AllInts(ii.items)>>
    /\ UNCHANGED <<df, window, step, call, pc, gen, yielded, names, index, arrays,
                   table, err, build, calls, prev, ii, stack, pandas>>

(* _all_strs(ii) is called and returns *)
CallAllStrs ==
    /\ call.fn = "_all_strs"
    /\ ret = <<>>
    /\ ret' = <<AllStrs(ii.items)>>
    /\ UNCHANGED <<df, window, step, call, pc, gen, yielded, names, index, arrays,
                   table, err, build, calls, prev, ii, stack, pandas>>

(* keep_sweeps(df, ii) is called and returns a frame or raises *)
CallKeepSweeps ==
    /\ call.fn = "keep_sweeps"
    /\ pc = "idle"
    /\ LET r == KeepSweeps(df, ii.items, build)
       IN  /\ err' = r.err
           /\ ret' = IF r.err = "" THEN <<r.frame>> ELSE <<>>
           /\ pc' = IF r.err = "" THEN "returned" ELSE "raised"
    /\ UNCHANGED <<df, window, step, call, gen, yielded, names, index, arrays,
                   table, build, calls, prev, ii, stack, pandas>>

(* drop_sweeps(df, ii) is called and returns a frame or raises *)
CallDropSweeps ==
    /\ call.fn = "drop_sweeps"
    /\ pc = "idle"
    /\ \E keep_sweeps \in
              ListsOf(SymmetricDifference(df, SweepLabels(ii.items).labels)) :
          LET r == DropSweeps(df, ii.items, build, keep_sweeps)
          IN  /\ err' = r.err
              /\ ret' = IF r.err = "" THEN <<r.frame>> ELSE <<>>
              /\ pc' = IF r.err = "" THEN "returned" ELSE "raised"
    /\ UNCHANGED <<df, window, step, call, gen, yielded, names, index, arrays,
                   table, build, calls, prev, ii, stack, pandas>>

NextReadAbf == CallAllInts \/ CallAllStrs \/ CallKeepSweeps \/ CallDropSweeps

SpecReadAbf == InitReadAbf /\ [][NextReadAbf]_vars

(* C20: _all_ints(seq) returns True exactly when every element of the list  *)
(* or tuple is an integer, and False when at least one element is a string  *)
(* or a float, whatever the other elements are.                             *)
C20_AllInts ==
    (call.fn = "_all_ints" /\ ret # <<>>) =>
        /\ ret[1] \in BOOLEAN
        /\ ret[1] = TRUE <=> \A p \in 1..Len(ii.items) : ii.items[p].type = "int"
        /\ (\E p \in 1..Len(ii.items) : ii.items[p].type \in {"str", "float"}) =>
              ret[1] = FALSE

C20_Witness ==
    /\ call.fn = "_all_ints"
    /\ ret = <<FALSE>>
    /\ ii.container = "tuple"
    /\ Len(ii.items) = 2
    /\ ii.items[1] = [type |-> "str", value |-> "test"]
    /\ ii.items[2] = [type |-> "int", value |-> "12345"]

(* C21: _all_strs(seq) returns True exactly when every element of the list  *)
(* or tuple is a string, and False when one element is not a string,        *)
(* whatever the other elements are.                                         *)
C21_AllStrs ==
    (call.fn = "_all_strs" /\ ret # <<>>) =>
        /\ ret[1] \in BOOLEAN
        /\ ret[1] = TRUE <=> \A p \in 1..Len(ii.items) : ii.items[p].type = "str"
        /\ (\E p \in 1..Len(ii.items) : ii.items[p].type # "str") =>
              ret[1] = FALSE

C21_Witness ==
    /\ call.fn = "_all_strs"
    /\ ret = <<FALSE>>
    /\ ii.container = "list"
    /\ Len(ii.items) = 2
    /\ ii.items[1] = [type |-> "str", value |-> "test"]
    /\ ii.items[2] = [type |-> "int", value |-> "12345"]

-----------------------------------------------------------------------------
(* pacemaking.detect_peaks *)

(* Bounds: the longest array, and the longest array tried with every        *)
(* combination of the optional arguments                                    *)
MaxSamples == 7

MaxShort == 4

(* np.inf and np.nan among the small integers of the samples *)
Inf == 1000

NaN == Inf + 1

IsNan(v) == v = NaN

(* -x, elementwise: the negative of NaN is NaN *)
Negate(x) == [k \in 1..Len(x) |-> IF IsNan(x[k]) THEN NaN ELSE 0 - x[k]]

(* x[k] for a 0-based k; after 'x[indnan] = np.inf' *)
At(x, k) == IF IsNan(x[k + 1]) THEN Inf ELSE x[k + 1]

(* dx = x[1:] - x[:-1] at 0-based k, its NaN entries set to np.inf *)
Dx(x, k) ==
    IF IsNan(x[k + 1]) \/ IsNan(x[k + 2]) THEN Inf ELSE x[k + 2] - x[k + 1]

(* np.hstack((dx, 0))[k] and np.hstack((0, dx))[k] *)
DxRight(x, k) == IF k = Len(x) - 1 THEN 0 ELSE Dx(x, k)

DxLeft(x, k) == IF k = 0 THEN 0 ELSE Dx(x, k - 1)

(* ine, ire, ife joined: the indices of all peaks for the edge argument *)
EdgePeaks(x, edge) ==
    {k \in 0..(Len(x) - 1) :
        \/ edge = "None" /\ DxRight(x, k) < 0 /\ DxLeft(x, k) > 0
        \/ edge \in {"rising", "both"} /\ DxRight(x, k) <= 0 /\ DxLeft(x, k) > 0
        \/ edge \in {"falling", "both"} /\ DxRight(x, k) < 0 /\ DxLeft(x, k) >= 0}

(* NaN's and values close to NaN's cannot be peaks; nor the first and the   *)
(* last value of x                                                          *)
NotNearNan(x, S) ==
    LET indnan == {k \in 0..(Len(x) - 1) : IsNan(x[k + 1])}
    IN  {k \in S : k \notin indnan /\ (k + 1) \notin indnan /\ (k - 1) \notin indnan}

NotAtEnds(x, S) == S \ {0, Len(x) - 1}

(* remove peaks < minimum peak height (mph is <<>> for None) *)
AboveMph(x, S, mph) ==
    IF S # {} /\ mph # <<>> THEN {k \in S : At(x, k) >= mph[1]} ELSE S

(* remove peaks - neighbors < threshold *)
AboveThreshold(x, S, threshold) ==
    IF S # {} /\ threshold > 0
    THEN {k \in S : ~(Min(At(x, k) - At(x, k - 1), At(x, k) - At(x, k + 1)) < threshold)}
    ELSE S

(* The peaks that reach the minimum-peak-distance step *)
Candidates(x0, c) ==
    LET x == IF c.valley THEN Negate(x0) ELSE x0
    IN  IF Len(x0) < 3 THEN {}
        ELSE AboveThreshold(x,
                 AboveMph(x, NotAtEnds(x, NotNearNan(x, EdgePeaks(x, c.edge))), c.mph),
                 c.threshold)

(* ind[np.argsort(x[ind])][::-1]: the peaks by falling height; the place    *)
(* of peaks of equal height is the sort's choice.                           *)
ByHeight(x, S) ==
    {q \in ListsOf(S) : \A i, j \in 1..Len(q) : i < j => At(x, q[i]) >= At(x, q[j])}

(* Variant of Deletes: only peaks closer than mpd are removed *)
DeletesCloser(x, ind, i, j, c) ==
    /\ ind[j] > ind[i] - c.mpd
    /\ ind[j] < ind[i] + c.mpd
    /\ (c.kpsh => At(x, ind[i]) > At(x, ind[j]))
    /\ j # i

(* Peak i marks peak j: within mpd of it (and lower, if kpsh), itself kept  *)
Deletes(x, ind, i, j, c) ==
    /\ ind[j] >= ind[i] - c.mpd
    /\ ind[j] <= ind[i] + c.mpd
    /\ (c.kpsh => At(x, ind[i]) > At(x, ind[j]))
    /\ j # i

(* Variant of MpdLoop: a peak already marked still marks its neighbours *)
RECURSIVE MpdLoopEvery(_, _, _, _, _)
MpdLoopEvery(x, ind, i, idel, c) ==
    IF i > Len(ind) THEN idel
    ELSE MpdLoopEvery(x, ind, i + 1,
                      [j \in 1..Len(ind) |-> idel[j] \/ Deletes(x, ind, i, j, c)], c)

(* The loop over the sorted peaks: idel after the iterations i..size-1 *)
RECURSIVE MpdLoop(_, _, _, _, _)
MpdLoop(x, ind, i, idel, c) ==
    IF i > Len(ind) THEN idel
    ELSE IF idel[i] THEN MpdLoop(x, ind, i + 1, idel, c)
    ELSE MpdLoop(x, ind, i + 1,
                 [j \in 1..Len(ind) |-> idel[j] \/ Deletes(x, ind, i, j, c)], c)

(* np.sort of a set of indices *)
RECURSIVE SortedSeq(_)
SortedSeq(S) ==
    IF S = {} THEN <<>>
    ELSE LET m == CHOOSE a \in S : \A b \in S : a <= b
         IN  <<m>> \o SortedSeq(S \ {m})

(* detect_peaks(x, mph, mpd, threshold, edge, kpsh, valley), ind being the  *)
(* candidate peaks in the order the sort by height gave them                *)
DetectPeaks(x0, c, ind) ==
    LET x == IF c.valley THEN Negate(x0) ELSE x0
    IN  IF ind # <<>> /\ c.mpd > 1
        THEN LET idel == MpdLoop(x, ind, 1, [j \in 1..Len(ind) |-> FALSE], c)
             IN  SortedSeq({ind[j] : j \in {j \in 1..Len(ind) : ~idel[j]}})
        ELSE SortedSeq({ind[j] : j \in 1..Len(ind)})

(* The arrays: integers of four heights up to MaxSamples long, and up to    *)
(* MaxShort long with NaN among the values.                                 *)
Heights == {0, 1, 2, 3}

(* One call of detect_peaks with its arguments *)
PeakCall(x, mph, mpd, threshold, edge, kpsh, valley) ==
    [fn |-> "detect_peaks", x |-> x, mph |-> mph, mpd |-> mpd,
     threshold |-> threshold, edge |-> edge, kpsh |-> kpsh, valley |-> valley]

InitPacemaking ==
    /\ pandas = "1.0 to 2"
    /\ \/ \E n \in 0..MaxSamples : \E x \in [1..n -> Heights] :
             \E mpd \in {2, 3}, kpsh \in BOOLEAN :
                call = PeakCall(x, <<>>, mpd, 0, "rising", kpsh, FALSE)
       \/ \E n \in 0..MaxShort : \E x \in [1..n -> {0, 1, 2, NaN}] :
             \E mph \in {<<>>, <<1>>}, mpd \in {1, 2}, th \in {0, 1},
                edge \in {"None", "rising", "falling", "both"},
                kpsh \in BOOLEAN, valley \in BOOLEAN :
                call = PeakCall(x, mph, mpd, th, edge, kpsh, valley)
    /\ ii = NoArgument
    /\ ret = <<>>
    /\ df = MockMultiDf(<<>>)
    /\ window = 1
    /\ step = 1
    /\ pc = "idle"
    /\ build = "TypeError"
    /\ calls = 0
    /\ prev = NoCall
    /\ gen = NewGenerator
    /\ yielded = <<>>
    /\ names = [num_epochs |-> 0, sweep_names |-> <<>>, epoch_names |-> <<>>]
    /\ index = <<>>
    /\ arrays = NewArrays
    /\ table = <<>>
    /\ err = ""
    /\ stack = <<>>

(* detect_peaks is called and returns *)
CallDetectPeaks ==
    /\ call.fn = "detect_peaks"
    /\ pc = "idle"
    /\ \E ind \in ByHeight(IF call.valley THEN Negate(call.x) ELSE call.x,
                            Candidates(call.x, call)) :
          ret' = <<DetectPeaks(call.x, call, ind)>>
    /\ pc' = "returned"
    /\ UNCHANGED <<df, window, step, call, gen, yielded, names, index, arrays,
                   table, err, build, calls, prev, ii, stack, pandas>>

NextPacemaking == CallDetectPeaks

SpecPacemaking == InitPacemaking /\ [][NextPacemaking]_vars

-----------------------------------------------------------------------------
(* utilities.simple_smoothing *)

(* The depth at which CPython raises RecursionError (sys.getrecursionlimit  *)
(* by default).  Every frame of the interpreter counts: those of the caller *)
(* (the module's own frame at least), those of simple_smoothing, and the    *)
(* Python frames of the numpy functions a frame of simple_smoothing calls   *)
(* (np.sum, np.append, ...), whose number the build of numpy decides.       *)
RecursionLimit == 1000

(* The frames in use where the call is made: 1 at module level *)
CallerDepths == {1, 2}

(* The Python frames numpy needs on top of a frame of simple_smoothing *)
NumpyFrames == {2, 5}

(* The frames in use below the first frame of simple_smoothing:             *)
(* baseline_pacemaking adds its own.                                        *)
FramesBelow(c) == c.depth + (IF c.fn = "baseline_pacemaking" THEN 1 ELSE 0)

(* The interpreters: up to CPython 3.10 a frame is refused when the depth   *)
(* reaches the limit, from 3.11 on when it exceeds it.                      *)
PythonBuilds == {"to 3.10", "from 3.11"}

(* Whether simple_smoothing can run with k frames of its own *)
FramesFit(c, k) ==
    LET depth == FramesBelow(c) + k + c.numpy
    IN  IF c.python = "to 3.10" THEN depth < RecursionLimit
        ELSE depth <= RecursionLimit

RatNan == Rat(0, 0)

RatIsNan(a) == a.den = 0

(* A frame with a primary column holding the values of an array, and        *)
(* df.primary.values, the array of that column                              *)
PrimaryFrame(data) ==
    [rows |-> [k \in 1..Len(data) |->
                 [time |-> k - 1,
                  primary |-> IF IsNan(data[k]) THEN RatNan ELSE Rat(data[k], 1)]],
     exp  |-> 0]

ValuesOf(d) ==
    [k \in 1..Len(d.rows) |->
        IF RatIsNan(d.rows[k].primary) THEN NaN ELSE d.rows[k].primary.num]

(* The array simple_smoothing is called on *)
DataOf(c, d) == IF c.fn = "baseline_pacemaking" THEN ValuesOf(d) ELSE c.data

(* np.nan_to_num(smoothed): NaN becomes 0 *)
NanToNum(smoothed) ==
    [k \in 1..Len(smoothed) |->
        IF smoothed[k].nan THEN Rat(0, 1) ELSE Rat(smoothed[k].num, smoothed[k].den)]

(* df.primary -= values: the arrays are broadcast (an array of one value    *)
(* goes with any length) and the result must be as long as the index;       *)
(* anything else is a ValueError.                                           *)
SubtractArray(rows, values) ==
    IF Len(values) = Len(rows)
    THEN [err |-> "",
          rows |-> [k \in 1..Len(rows) |->
                      [rows[k] EXCEPT !.primary = RatSub(@, values[k])]]]
    ELSE IF Len(values) = 1 /\ Len(rows) = 0
    THEN [err |-> "", rows |-> rows]
    ELSE [err |-> "ValueError", rows |-> rows]

(* An entry of the returned float array: NaN, or the fraction num/den *)
NanEntry == [nan |-> TRUE, num |-> 0, den |-> 1]

Entry(num, den) == [nan |-> FALSE, num |-> num, den |-> den]

(* np.isnan(np.sum(data)) for an array of integers and NaN *)
SumIsNan(data) == \E k \in 1..Len(data) : IsNan(data[k])

(* len(data[np.isnan(data)]): the NaN values of data, wherever they are *)
CountNan(data) == Cardinality({k \in 1..Len(data) : IsNan(data[k])})

(* data[len(starting_nans):] *)
DataNoNan(data) == SubSeq(data, Min(CountNan(data), Len(data)) + 1, Len(data))

(* np.cumsum(data, dtype=float) *)
RECURSIVE CumSum(_)
CumSum(data) ==
    IF data = <<>> THEN <<>>
    ELSE LET c == CumSum(SubSeq(data, 1, Len(data) - 1))
         IN  Append(c, (IF c = <<>> THEN 0 ELSE c[Len(c)]) + data[Len(data)])

(* Variant of RunningSum: the window is one sample longer *)
RunningSumLong(data, n) ==
    LET c == CumSum(data)
    IN  [k \in 1..Len(data) |-> IF k > n + 1 THEN c[k] - c[k - n - 1] ELSE c[k]]

(* cum_sum[n:] = cum_sum[n:] - cum_sum[:-n]; both slices are empty when     *)
(* n >= len(data).                                                          *)
RunningSum(data, n) ==
    LET c == CumSum(data)
    IN  [k \in 1..Len(data) |-> IF k > n THEN c[k] - c[k - n] ELSE c[k]]

(* The non-recursive branch: n - 1 NaN values, then cum_sum[n - 1:] / n *)
SmoothNoNan(data, n) ==
    LET r == RunningSum(data, n)
    IN  [k \in 1..(n - 1) |-> NanEntry]
        \o [k \in 1..Max(Len(data) - (n - 1), 0) |-> Entry(r[k + n - 1], n)]

(* The arrays: integers and NaN, up to MaxShort long; n up to two more      *)
SmoothingValues == {0, 1, 3, NaN}

(* An array one longer than the frames allowed, its last value NaN *)
LongData == [k \in 1..(RecursionLimit + 2) |-> IF k = RecursionLimit + 2 THEN NaN ELSE 0]

(* Arrays of zeros that end in one NaN, of the lengths at which the frames  *)
(* run out: an array of len values takes len + 1 frames.                    *)
NearLimit(len) == [k \in 1..len |-> IF k = len THEN NaN ELSE 0]

InitSmoothing ==
    /\ pandas = "1.0 to 2"
    /\ \E depth \in CallerDepths, numpy \in NumpyFrames, python \in PythonBuilds :
         \/ \E len \in 0..MaxShort : \E data \in [1..len -> SmoothingValues] :
               \E n \in 1..(MaxShort + 2) :
                  \/ /\ call = [fn |-> "simple_smoothing", data |-> data, n |-> n,
                                 depth |-> depth, numpy |-> numpy, python |-> python]
                     /\ df = MockMultiDf(<<>>)
                  \/ /\ call = [fn |-> "baseline_pacemaking", n |-> n,
                                 depth |-> depth, numpy |-> numpy, python |-> python]
                     /\ df = PrimaryFrame(data)
         \/ /\ \E data \in {LongData} \cup {NearLimit(len) : len \in (RecursionLimit - 9)..(RecursionLimit - 3)} :
                  call = [fn |-> "simple_smoothing", data |-> data, n |-> 2,
                          depth |-> depth, numpy |-> numpy, python |-> python]
            /\ df = MockMultiDf(<<>>)
    /\ AtRest
    /\ pc = "idle"
    /\ err = ""
    /\ ii = NoArgument
    /\ ret = <<>>
    /\ stack = <<>>

(* The caller calls simple_smoothing(data, n), or baseline_pacemaking calls *)
(* it on df.primary.values (pacemaking.py line 138): the first frame        *)
EnterSmoothing ==
    /\ call.fn \in {"simple_smoothing", "baseline_pacemaking"}
    /\ pc = "idle"
    /\ IF FramesFit(call, 1)
       THEN /\ pc' = "running"
            /\ ii' = [container |-> "array", items |-> DataOf(call, df)]
            /\ stack' = <<[len |-> Len(DataOf(call, df)), nans |-> 0]>>
            /\ err' = err
       ELSE /\ pc' = "raised"
            /\ err' = "RecursionError"
            /\ UNCHANGED <<ii, stack>>
    /\ UNCHANGED <<df, window, step, call, gen, yielded, names, index, arrays,
                   table, build, calls, prev, ret, pandas>>

(* The branch of line 139: the running frame counts its NaN values, cuts    *)
(* that many values off the front and calls simple_smoothing on the rest;   *)
(* the interpreter raises RecursionError when the frames run out, in the    *)
(* call itself or in the first numpy call of the new frame.                 *)
SmoothingRecurse ==
    /\ pc = "running"
    /\ SumIsNan(ii.items)
    /\ IF ~FramesFit(call, Len(stack) + 1)
       THEN /\ pc' = "raised"
            /\ err' = "RecursionError"
            /\ stack' = <<>>
            /\ ii' = NoArgument
       ELSE /\ stack' = [stack EXCEPT ![Len(stack)].nans = CountNan(ii.items)]
                           \o <<[len |-> Len(DataNoNan(ii.items)), nans |-> 0]>>
            /\ ii' = [ii EXCEPT !.items = DataNoNan(ii.items)]
            /\ UNCHANGED <<pc, err>>
    /\ UNCHANGED <<df, window, step, call, gen, yielded, names, index, arrays,
                   table, build, calls, prev, ret, pandas>>

(* The branch of line 147: the running frame returns the running average *)
SmoothingBase ==
    /\ pc = "running"
    /\ ~SumIsNan(ii.items)
    /\ ret' = <<SmoothNoNan(ii.items, call.n)>>
    /\ stack' = SubSeq(stack, 1, Len(stack) - 1)
    /\ ii' = NoArgument
    /\ pc' = IF Len(stack) > 1 THEN "returning"
             ELSE IF call.fn = "baseline_pacemaking" THEN "smoothed" ELSE "returned"
    /\ UNCHANGED <<df, window, step, call, gen, yielded, names, index, arrays,
                   table, err, build, calls, prev, pandas>>

(* Line 145: a frame that recursed returns np.append(starting_nans, smoothed) *)
SmoothingReturn ==
    /\ pc = "returning"
    /\ ret' = <<[k \in 1..stack[Len(stack)].nans |-> NanEntry] \o ret[1]>>
    /\ stack' = SubSeq(stack, 1, Len(stack) - 1)
    /\ pc' = IF Len(stack) > 1 THEN "returning"
             ELSE IF call.fn = "baseline_pacemaking" THEN "smoothed" ELSE "returned"
    /\ UNCHANGED <<df, window, step, call, gen, yielded, names, index, arrays,
                   table, err, build, calls, prev, ii, pandas>>

(* baseline_pacemaking, lines 139-141: the smoothed trace, its NaN values   *)
(* set to 0, is taken off the primary column of the caller's frame, and     *)
(* that frame is returned.                                                  *)
BaselinePacemaking ==
    /\ call.fn = "baseline_pacemaking"
    /\ pc = "smoothed"
    /\ LET r == SubtractArray(df.rows, NanToNum(ret[1]))
       IN  /\ df' = [df EXCEPT !.rows = r.rows]
           /\ err' = r.err
           /\ pc' = IF r.err = "" THEN "returned" ELSE "raised"
           /\ ret' = IF r.err = "" THEN <<df'>> ELSE <<>>
    /\ UNCHANGED <<window, step, call, gen, yielded, names, index, arrays,
                   table, build, calls, prev, ii, stack, pandas>>

NextSmoothing ==
    \/ EnterSmoothing \/ SmoothingRecurse \/ SmoothingBase \/ SmoothingReturn
    \/ BaselinePacemaking

SpecSmoothing == InitSmoothing /\ [][NextSmoothing]_vars

-----------------------------------------------------------------------------
(* utilities.baseline and find_peak, synaptics.analyze_current and          *)
(* membrane.calc_mem_prop                                                   *)

(* A one-sweep frame: rows of a time and a primary value.  The time of a    *)
(* row is its position (one sample per unit of time); a primary value is a  *)
(* fraction, NaN being the fraction with denominator 0, in units of 10^exp. *)
FlatDf(values) ==
    [rows |-> [k \in 1..Len(values) |-> [time |-> k - 1, primary |-> Rat(values[k], 1)]],
     exp  |-> 0]

(* df[(df.time >= start_time) & (df.time <= end_time)] *)
Between(rows, start_time, end_time) ==
    SelectSeq(rows, LAMBDA r : r.time >= start_time /\ r.time <= end_time)

(* Series.min() and Series.max(): NaN values are skipped, and the result    *)
(* is NaN when nothing is left.                                             *)
NumbersOf(rows) == {rows[k].primary : k \in {k \in 1..Len(rows) : ~RatIsNan(rows[k].primary)}}

SeriesMin(rows) ==
    IF NumbersOf(rows) = {} THEN RatNan
    ELSE CHOOSE v \in NumbersOf(rows) : \A w \in NumbersOf(rows) : ~RatLess(w, v)

SeriesMax(rows) ==
    IF NumbersOf(rows) = {} THEN RatNan
    ELSE CHOOSE v \in NumbersOf(rows) : \A w \in NumbersOf(rows) : ~RatLess(v, w)

(* The peak of lines 49-52; sign other than 'min' and 'max' leaves peak     *)
(* unassigned.                                                              *)
PeakOf(sub, sign) == IF sign = "min" THEN SeriesMin(sub) ELSE SeriesMax(sub)

(* df[df.primary == peak][['time', 'primary']] with the columns renamed *)
PeakRows(rows, peak) ==
    LET eq == SelectSeq(rows, LAMBDA r : RatEq(r.primary, peak))
    IN  [k \in 1..Len(eq) |-> [peak_time |-> eq[k].time, peak_amp |-> eq[k].primary]]

(* neurphys/utilities.py find_peak: the first row of the subset that has    *)
(* the peak value (head(1))                                                 *)
FindPeak(rows, start_time, end_time, sign) ==
    IF sign \notin {"min", "max"} THEN [err |-> "UnboundLocalError", peak_df |-> <<>>]
    ELSE LET df_sub == Between(rows, start_time, end_time)
             peak_df == PeakRows(df_sub, PeakOf(df_sub, sign))
         IN  [err |-> "", peak_df |-> SubSeq(peak_df, 1, Min(1, Len(peak_df)))]

(* src/utilities.py find_peak: the last row of the WHOLE frame that has     *)
(* the peak value (df[df.Primary == peak], tail(1))                         *)
FindPeakTail(rows, start_time, end_time, sign) ==
    IF sign \notin {"min", "max"} THEN [err |-> "UnboundLocalError", peak_df |-> <<>>]
    ELSE LET df_sub == Between(rows, start_time, end_time)
             peak_df == PeakRows(rows, PeakOf(df_sub, sign))
         IN  [err |-> "", peak_df |-> SubSeq(peak_df, Max(Len(peak_df), 1), Len(peak_df))]

(* a + b, a <= b and a * n/d for fractions; NaN makes every comparison     *)
(* false and every sum NaN.                                                 *)
RatAdd(a, b) == Rat(a.num * b.den + b.num * a.den, a.den * b.den)

RatLeq(a, b) == a.den # 0 /\ b.den # 0 /\ a.num * b.den <= b.num * a.den

RatScale(a, n, d) == Rat(a.num * n, a.den * d)

(* Series.mean(): the mean of the values that are not NaN, NaN if none *)
RECURSIVE RatSum(_)
RatSum(vals) == IF vals = <<>> THEN Rat(0, 1) ELSE RatAdd(Head(vals), RatSum(Tail(vals)))

SeriesMean(rows) ==
    LET vals == SelectSeq([k \in 1..Len(rows) |-> rows[k].primary],
                          LAMBDA v : ~RatIsNan(v))
    IN  IF vals = <<>> THEN RatNan ELSE RatScale(RatSum(vals), 1, Len(vals))

(* df.Primary -= avg: every value of the column, in place *)
Subtract(rows, avg) ==
    [k \in 1..Len(rows) |-> [rows[k] EXCEPT !.primary = RatSub(@, avg)]]

(* baseline(df, start_time, end_time): the rows of df after the call *)
Baseline(rows, start_time, end_time) ==
    Subtract(rows, SeriesMean(Between(rows, start_time, end_time)))

(* curve_fit needs as many points as exp_decay has parameters *)
FitParameters == 4

(* calc_decay(df, peak, peak_time, ...) up to the fit: the error it raises  *)
(* before curve_fit returns, "" when the fit is left to decide.  With both  *)
(* indices found, peak_sub.ix raises AttributeError on a build b of pandas  *)
(* without DataFrame.ix.                                                    *)
DecayError(rows, peak, peak_time, b) ==
    LET peak_sub == SelectSeq(rows, LAMBDA r : r.time >= peak_time)
        Past(r, n, d) == IF RatLess(peak, Rat(0, 1))
                         THEN RatLeq(RatScale(peak, n, d), r.primary)
                         ELSE RatLeq(r.primary, RatScale(peak, n, d))
        rows1 == SelectSeq(peak_sub, LAMBDA r : Past(r, 90, 100))
        rows2 == SelectSeq(peak_sub, LAMBDA r : Past(r, 5, 100))
    IN  IF rows1 = <<>> \/ rows2 = <<>> THEN "IndexError"
        ELSE IF ~HasIx(b) THEN "AttributeError"
        ELSE LET fit_sub == SelectSeq(peak_sub, LAMBDA r :
                                r.time >= rows1[1].time /\ r.time <= rows2[1].time)
             IN  IF fit_sub = <<>> THEN "IndexError"
                 ELSE IF Len(fit_sub) < FitParameters THEN "TypeError"
                 ELSE ""

(* What curve_fit can do with enough points *)
FitOutcomes == {"", "RuntimeError"}

(* Variant of DfCopy: data = df, the same object under a second name *)
DfAlias(d) == [alias |-> TRUE, rows |-> d.rows, exp |-> d.exp]

(* data = df.copy(): a frame of its own with the values of df *)
DfCopy(d) == [alias |-> FALSE, rows |-> d.rows, exp |-> d.exp]

(* The caller's frame after a write to the local frame: the same object is  *)
(* written when the local name is an alias of it.                           *)
Written(d, local) == IF local.alias THEN [rows |-> local.rows, exp |-> local.exp] ELSE d

(* data.Primary[(data.Time >= pulse_start + pulse_dur*0.7) &                *)
(*              (data.Time <= pulse_start + pulse_dur*0.9)]                 *)
SteadyState(rows, pulse_start, pulse_dur) ==
    SelectSeq(rows, LAMBDA r : /\ 10 * r.time >= 10 * pulse_start + 7 * pulse_dur
                               /\ 10 * r.time <= 10 * pulse_start + 9 * pulse_dur)

(* The frames and the calls of find_peak *)
PrimaryValues == {0, 1, 2}

(* A recording with a transient that decays over enough samples to fit *)
Transients ==
    {<<0, 0, 0 - 20, 0 - 16, 0 - 12, 0 - 9, 0 - 6, 0 - 4, 0 - 3, 0 - 2, 0 - 1, 0>>,
     <<0, 0, 20, 16, 12, 9, 6, 4, 3, 2, 1, 0>>}

Signs == {"min", "max"}

AnalysisFrames ==
    {FlatDf(values) : values \in UNION {[1..n -> PrimaryValues] : n \in 0..MaxRows}}
    \cup {FlatDf(values) : values \in Transients}

InitAnalysis ==
    /\ df \in AnalysisFrames
    /\ pandas \in PandasBuilds
    /\ \/ \E module \in {"neurphys.utilities", "utilities"},
             start_time \in 0..MaxRows, end_time \in 0..MaxRows, sign \in Signs :
             call = [fn |-> "find_peak", module |-> module, start_time |-> start_time,
                     end_time |-> end_time, sign |-> sign]
       \/ \E bsl \in {<<0, 0>>, <<0, 1>>, <<1, 0>>},
             start_time \in 0..MaxRows, end_time \in 0..MaxRows, sign \in Signs,
             calc_tau \in BOOLEAN, tau_plot \in BOOLEAN :
             call = [fn |-> "analyze_current", bsl_start |-> bsl[1], bsl_end |-> bsl[2],
                     start_time |-> start_time, end_time |-> end_time, sign |-> sign,
                     calc_tau |-> calc_tau, tau_plot |-> tau_plot]
       \/ \E bsl \in {<<0, 1>>, <<1, 0>>}, pulse_start \in {0, 2}, pulse_dur \in {1, 10},
             pulse_amp \in {0 - 1, 0, 1}, load \in {"import", "exec"} :
             call = [fn |-> "calc_mem_prop", bsl_start |-> bsl[1], bsl_end |-> bsl[2],
                     pulse_start |-> pulse_start, pulse_dur |-> pulse_dur,
                     pulse_amp |-> pulse_amp, load |-> load]
       \/ \E module \in {"neurphys.utilities", "utilities"},
             start_time \in 0..MaxRows, end_time \in 0..MaxRows :
             call = [fn |-> "baseline", module |-> module, start_time |-> start_time,
                     end_time |-> end_time]
       \/ \E bsl \in {<<0, 0>>, <<0, 1>>, <<1, 0>>},
             start_time \in 0..MaxRows, end_time \in 0..MaxRows,
             stim_interval \in {1, 2}, sign \in Signs :
             call = [fn |-> "calc_ppr", bsl_start |-> bsl[1], bsl_end |-> bsl[2],
                     start_time |-> start_time, end_time |-> end_time,
                     stim_interval |-> stim_interval, sign |-> sign]
    /\ AtRest
    /\ pc = "idle"
    /\ err = ""
    /\ ii = NoArgument
    /\ ret = <<>>
    /\ stack = <<>>

(* find_peak(df, start_time, end_time, sign) of either module is called *)
CallFindPeak ==
    /\ call.fn = "find_peak"
    /\ pc = "idle"
    /\ LET r == IF call.module = "neurphys.utilities"
                THEN FindPeak(df.rows, call.start_time, call.end_time, call.sign)
                ELSE FindPeakTail(df.rows, call.start_time, call.end_time, call.sign)
       IN  /\ err' = r.err
           /\ ret' = IF r.err = "" THEN <<r.peak_df>> ELSE <<>>
           /\ pc' = IF r.err = "" THEN "returned" ELSE "raised"
    /\ UNCHANGED <<df, window, step, call, gen, yielded, names, index, arrays,
                   table, build, calls, prev, ii, stack, pandas>>

(* baseline(df, start_time, end_time) of either module is called: the mean  *)
(* of the region is taken off the caller's column and the caller's frame    *)
(* is returned.                                                             *)
CallBaseline ==
    /\ call.fn = "baseline"
    /\ pc = "idle"
    /\ df' = [df EXCEPT !.rows = Baseline(df.rows, call.start_time, call.end_time)]
    /\ ret' = <<df'>>
    /\ pc' = "returned"
    /\ UNCHANGED <<window, step, call, gen, yielded, names, index, arrays,
                   table, err, build, calls, prev, ii, stack, pandas>>

(* calc_ppr, lines 87-100: util.baseline subtracts in the caller's frame    *)
(* (line 89); find_peak runs on the first region, which ends just before    *)
(* first_end (times are whole numbers here), and its result has no column   *)
(* "Peak", so that line 92 raises KeyError and nothing is returned.         *)
CallCalcPpr ==
    /\ call.fn = "calc_ppr"
    /\ pc = "idle"
    /\ LET first_end == call.start_time + call.stim_interval
           df_bsl == Baseline(df.rows, call.bsl_start, call.bsl_end)
           r == FindPeakTail(df_bsl, call.start_time, first_end - 1, call.sign)
       IN  /\ df' = [df EXCEPT !.rows = df_bsl]
           /\ err' = IF r.err # "" THEN r.err ELSE "KeyError"
    /\ pc' = "raised"
    /\ UNCHANGED <<window, step, call, gen, yielded, names, index, arrays,
                   table, build, calls, prev, ii, ret, stack, pandas>>

(* analyze_current, line 42: util.baseline(df, bsl_start, bsl_end)          *)
(* subtracts in the caller's frame and hands that same frame back.          *)
AnalyzeBaseline ==
    /\ call.fn = "analyze_current"
    /\ pc = "idle"
    /\ df' = [df EXCEPT !.rows = Baseline(df.rows, call.bsl_start, call.bsl_end)]
    /\ stack' = <<[fn |-> "analyze_current", peak_df |-> <<>>]>>
    /\ pc' = "baselined"
    /\ UNCHANGED <<window, step, call, gen, yielded, names, index, arrays,
                   table, err, build, calls, prev, ii, ret, pandas>>

(* line 43: util.find_peak(df_bsl, start_time, end_time); sign is not       *)
(* handed on, so find_peak runs with its default 'min'.                     *)
AnalyzeFindPeak ==
    /\ call.fn = "analyze_current"
    /\ pc = "baselined"
    /\ LET r == FindPeakTail(df.rows, call.start_time, call.end_time, "min")
       IN  /\ stack' = [stack EXCEPT ![1].peak_df = r.peak_df]
           /\ pc' = "found"
    /\ UNCHANGED <<df, window, step, call, gen, yielded, names, index, arrays,
                   table, err, build, calls, prev, ii, ret, pandas>>

(* lines 45-59: the decay on request, and the return *)
AnalyzeReturn ==
    /\ call.fn = "analyze_current"
    /\ pc = "found"
    /\ LET peak_df == stack[1].peak_df
       IN  IF ~call.tau_plot /\ ~call.calc_tau
           THEN /\ ret' = <<[peak_df |-> peak_df, tau |-> "none"]>>
                /\ pc' = "returned"
                /\ err' = err
           ELSE IF peak_df = <<>>
           THEN /\ ret' = ret
                /\ pc' = "raised"
                /\ err' = "IndexError"
           ELSE \E fit \in FitOutcomes :
                  LET e == DecayError(df.rows, peak_df[1].peak_amp, peak_df[1].peak_time,
                                      pandas)
                      error == IF e # "" THEN e ELSE fit
                  IN  /\ ret' = IF error = ""
                                THEN <<[peak_df |-> peak_df, tau |-> "tau*1e3"]>>
                                ELSE ret
                      /\ pc' = IF error = "" THEN "returned" ELSE "raised"
                      /\ err' = error
    /\ stack' = <<>>
    /\ UNCHANGED <<df, window, step, call, gen, yielded, names, index, arrays,
                   table, build, calls, prev, ii, pandas>>

(* How the caller comes by calc_mem_prop (call.load).  The module ends in   *)
(* a stray name (membrane.py line 96), so that importing it raises          *)
(* NameError and gives the caller nothing to call; the def of line 7 has    *)
(* run by then, and a caller that executes the file's statements in a       *)
(* namespace of its own ("exec") holds the function in spite of the error.  *)
MemPropImport ==
    /\ call.fn = "calc_mem_prop"
    /\ call.load = "import"
    /\ pc = "idle"
    /\ pc' = "raised"
    /\ err' = "NameError"
    /\ UNCHANGED <<df, window, step, call, gen, yielded, names, index, arrays,
                   table, build, calls, prev, ii, ret, stack, pandas>>

(* calc_mem_prop, lines 40-45: the copy and the conversions of units *)
MemPropCopy ==
    /\ call.fn = "calc_mem_prop"
    /\ call.load = "exec"
    /\ pc = "idle"
    /\ LET data == [DfCopy(df) EXCEPT !.exp = @ - 12]
       IN  /\ stack' = <<[fn |-> "calc_mem_prop", data |-> data, delta_i |-> RatNan,
                           peak_df |-> <<>>]>>
           /\ df' = Written(df, data)
    /\ pc' = "copied"
    /\ UNCHANGED <<window, step, call, gen, yielded, names, index, arrays,
                   table, err, build, calls, prev, ii, ret, pandas>>

(* line 48: data = util.baseline(data, bsl_start, bsl_end) *)
MemPropBaseline ==
    /\ call.fn = "calc_mem_prop"
    /\ pc = "copied"
    /\ LET data == [stack[1].data EXCEPT
                       !.rows = Baseline(@, call.bsl_start, call.bsl_end)]
       IN  /\ stack' = [stack EXCEPT ![1].data = data]
           /\ df' = Written(df, data)
    /\ pc' = "baselined"
    /\ UNCHANGED <<window, step, call, gen, yielded, names, index, arrays,
                   table, err, build, calls, prev, ii, ret, pandas>>

(* lines 51-65: delta_i = i_ss - i_baseline is taken off the column *)
MemPropRemoveDelta ==
    /\ call.fn = "calc_mem_prop"
    /\ pc = "baselined"
    /\ LET rows       == stack[1].data.rows
           i_baseline == SeriesMean(Between(rows, call.bsl_start, call.bsl_end))
           i_ss       == SeriesMean(SteadyState(rows, call.pulse_start, call.pulse_dur))
           delta_i    == RatSub(i_ss, i_baseline)
           data       == [stack[1].data EXCEPT !.rows = Subtract(@, delta_i)]
       IN  /\ stack' = [stack EXCEPT ![1].data = data, ![1].delta_i = delta_i]
           /\ df' = Written(df, data)
    /\ pc' = "delta_removed"
    /\ UNCHANGED <<window, step, call, gen, yielded, names, index, arrays,
                   table, err, build, calls, prev, ii, ret, pandas>>

(* lines 67-75: the peak of the pulse, 'max' for a positive and 'min' for   *)
(* a negative pulse_amp; with pulse_amp 0 peak_df is never assigned.        *)
MemPropFindPeak ==
    /\ call.fn = "calc_mem_prop"
    /\ pc = "delta_removed"
    /\ LET pulse_end == call.pulse_start + call.pulse_dur
           r == FindPeakTail(stack[1].data.rows, call.pulse_start, pulse_end,
                             IF call.pulse_amp > 0 THEN "max" ELSE "min")
           error == IF call.pulse_amp = 0 THEN "UnboundLocalError"
                    ELSE IF r.peak_df = <<>> THEN "IndexError"
                    ELSE ""
       IN  IF error = ""
           THEN /\ stack' = [stack EXCEPT ![1].peak_df = r.peak_df]
                /\ pc' = "found"
                /\ err' = err
           ELSE /\ stack' = <<>>
                /\ pc' = "raised"
                /\ err' = error
    /\ UNCHANGED <<df, window, step, call, gen, yielded, names, index, arrays,
                   table, build, calls, prev, ii, ret, pandas>>

(* lines 76-97: the fit of the transient, the charges, the resistances and  *)
(* the capacitance; the four values are returned.                           *)
MemPropReturn ==
    /\ call.fn = "calc_mem_prop"
    /\ pc = "found"
    /\ \E fit \in FitOutcomes :
          LET peak_df == stack[1].peak_df
              e == DecayError(stack[1].data.rows, peak_df[1].peak_amp,
                              peak_df[1].peak_time, pandas)
              error == IF e # "" THEN e ELSE fit
          IN  /\ ret' = IF error = ""
                        THEN <<[ra |-> "ra*1e-6", rm |-> "rm*1e-6", cm |-> "cm*1e12",
                                tau |-> "tau*1e3"]>>
                        ELSE ret
              /\ pc' = IF error = "" THEN "returned" ELSE "raised"
              /\ err' = error
    /\ stack' = <<>>
    /\ UNCHANGED <<df, window, step, call, gen, yielded, names, index, arrays,
                   table, build, calls, prev, ii, pandas>>

NextAnalysis ==
    \/ CallFindPeak \/ CallBaseline \/ CallCalcPpr
    \/ AnalyzeBaseline \/ AnalyzeFindPeak \/ AnalyzeReturn
    \/ MemPropImport \/ MemPropCopy \/ MemPropBaseline \/ MemPropRemoveDelta \/ MemPropFindPeak
    \/ MemPropReturn

SpecAnalysis == InitAnalysis /\ [][NextAnalysis]_vars

-----------------------------------------------------------------------------
(* read_pv.parse_xml and import_folder *)

(* Bound: the VoltageRecording XML files of a folder *)
MaxFiles == 3

(* What parse_xml reads of one XML file: the kind of file DataFile names    *)
(* and whether AssociatedLinescanProfileFile has a text.                    *)
XmlFiles ==
    [datafile : {"VoltageRecording", "LineScan"}, linescan : BOOLEAN]

(* parse_xml, lines 59-75: which of the two data files the XML yields *)
ParseXml(file) ==
    IF ~file.linescan
    THEN IF file.datafile = "LineScan"
         THEN [vo_file |-> FALSE, ls_file |-> TRUE]
         ELSE [vo_file |-> TRUE, ls_file |-> FALSE]
    ELSE [vo_file |-> TRUE, ls_file |-> TRUE]

(* The frames import_vr_csv and import_ls_csv read for the i-th XML file:   *)
(* one row that tells the file.                                             *)
VrCsv(i) == MockDf(<<i>>)

LsCsv(i) == MockDf(<<0 - i>>)

(* import_ls_csv(filename) on a build: df.ix raises AttributeError where    *)
(* pandas has no ix.                                                        *)
ImportLsCsv(i, b) ==
    IF HasIx(b) THEN [err |-> "", df |-> LsCsv(i)]
    ELSE [err |-> "AttributeError", df |-> <<>>]

(* 'Sweep' + str(i+1).zfill(4), i + 1 being the argument *)
PvSweepName(i) == <<"Sweep", Zfill(Str(i), 4)>>

(* pd.concat(objs, keys=keys) when there may be more keys than frames *)
ConcatKeys(keys, frames, b) ==
    IF ConcatRaises(b) /\ Len(keys) # Len(frames)
    THEN [err |-> "ValueError", table |-> <<>>]
    ELSE LET n == Min(Len(keys), Len(frames))
         IN  [err |-> "", table |-> <<PdConcat(SubSeq(keys, 1, n), SubSeq(frames, 1, n))>>]

InitReadPv ==
    /\ \E n \in 0..MaxFiles : \E files \in [1..n -> XmlFiles] :
          call = [fn |-> "import_folder", vr_xmls |-> files]
    /\ pandas \in PandasBuilds
    /\ build = "TypeError"
    /\ df = MockMultiDf(<<>>)
    /\ window = 1
    /\ step = 1
    /\ calls = 0
    /\ prev = NoCall
    /\ gen = NewGenerator
    /\ yielded = <<>>
    /\ names = [num_epochs |-> 0, sweep_names |-> <<>>, epoch_names |-> <<>>]
    /\ index = <<>>
    /\ arrays = NewArrays
    /\ table = <<>>
    /\ pc = "idle"
    /\ err = ""
    /\ ii = NoArgument
    /\ ret = <<>>
    /\ stack = <<>>

(* lines 142-150: the XML files are listed; without any the output is three *)
(* times None, else the lists of the loop are made.                         *)
ImportStart ==
    /\ call.fn = "import_folder"
    /\ pc = "idle"
    /\ IF call.vr_xmls = <<>>
       THEN /\ ret' = <<[voltage_recording |-> <<>>, linescan |-> <<>>,
                          file_attributes |-> <<>>, none |-> TRUE]>>
            /\ pc' = "returned"
            /\ stack' = stack
       ELSE /\ stack' = <<[fn |-> "import_folder", i |-> 0, data_vr |-> <<>>,
                           data_ls |-> <<>>, sweep_list |-> <<>>, file_attr |-> <<>>]>>
            /\ pc' = "looping"
            /\ ret' = ret
    /\ UNCHANGED <<df, window, step, call, gen, yielded, names, index, arrays,
                   table, err, build, calls, prev, ii, pandas>>

(* lines 152-174: one turn of the loop over the XML files; an error of      *)
(* import_ls_csv (line 170) is not handled and ends the call.               *)
ImportFile ==
    /\ call.fn = "import_folder"
    /\ pc = "looping"
    /\ stack[1].i < Len(call.vr_xmls)
    /\ LET i == stack[1].i
           file_vals == ParseXml(call.vr_xmls[i + 1])
           df_ls == ImportLsCsv(i + 1, pandas)
       IN  IF file_vals.ls_file /\ df_ls.err # ""
           THEN /\ pc' = "raised"
                /\ err' = df_ls.err
                /\ stack' = <<>>
           ELSE /\ stack' = <<[fn |-> "import_folder",
                       i |-> i + 1,
                       sweep_list |-> Append(stack[1].sweep_list, PvSweepName(i + 1)),
                       data_vr |-> IF file_vals.vo_file
                                   THEN Append(stack[1].data_vr, VrCsv(i + 1))
                                   ELSE stack[1].data_vr,
                       data_ls |-> IF file_vals.ls_file
                                   THEN Append(stack[1].data_ls, df_ls.df)
                                   ELSE stack[1].data_ls,
                       file_attr |-> Append(stack[1].file_attr, file_vals)]>>
                /\ UNCHANGED <<pc, err>>
    /\ UNCHANGED <<df, window, step, call, gen, yielded, names, index, arrays,
                   table, build, calls, prev, ii, ret, pandas>>

(* lines 176-186: the two tables are concatenated under the sweep names *)
ImportFinish ==
    /\ call.fn = "import_folder"
    /\ pc = "looping"
    /\ stack[1].i = Len(call.vr_xmls)
    /\ LET vr == IF stack[1].data_vr # <<>>
                 THEN ConcatKeys(stack[1].sweep_list, stack[1].data_vr, pandas)
                 ELSE [err |-> "", table |-> <<>>]
           ls == IF vr.err # "" THEN vr
                 ELSE IF stack[1].data_ls # <<>>
                 THEN ConcatKeys(stack[1].sweep_list, stack[1].data_ls, pandas)
                 ELSE [err |-> "", table |-> <<>>]
       IN  IF ls.err # ""
           THEN /\ pc' = "raised"
                /\ err' = ls.err
                /\ ret' = ret
           ELSE /\ pc' = "returned"
                /\ err' = err
                /\ ret' = <<[voltage_recording |-> vr.table, linescan |-> ls.table,
                             file_attributes |-> stack[1].file_attr, none |-> FALSE]>>
    /\ stack' = <<>>
    /\ UNCHANGED <<df, window, step, call, gen, yielded, names, index, arrays,
                   table, build, calls, prev, ii, pandas>>

NextReadPv == ImportStart \/ ImportFile \/ ImportFinish

SpecReadPv == InitReadPv /\ [][NextReadPv]_vars

-----------------------------------------------------------------------------
(* Claims about read_abf and pacemaking *)

(* The sweeps a frame holds rows of *)
SweepsOf(d) == {d.blocks[i].sweep : i \in 1..Len(d.blocks)}

(* The sweep an element of a sweep_list names: the number i names           *)
(* 'sweep' + i in three digits, a string names itself.                      *)
NamedBy(x) ==
    IF x.type = "int"
    THEN SweepName(CHOOSE i \in 0..999 : Str(i) = x.value[2])
    ELSE x.value

NamedSweeps(items) == {NamedBy(items[p]) : p \in 1..Len(items)}

IntsOrNames(items) ==
    \/ \A p \in 1..Len(items) : items[p].type = "int"
    \/ \A p \in 1..Len(items) : items[p].type = "str"

CallOver == pc \in {"returned", "raised"}

(* C22: for every sweep_list of integers or of sweep names whose first      *)
(* element names a sweep of df, drop_sweeps returns a frame that holds      *)
(* exactly the sweeps of df the list does not name.                         *)
C22_DropRemovesNamed ==
    (/\ call.fn = "drop_sweeps"
     /\ CallOver
     /\ ii.items # <<>>
     /\ IntsOrNames(ii.items)
     /\ NamedBy(ii.items[1]) \in SweepsOf(df)) =>
        /\ pc = "returned"
        /\ SweepsOf(ret[1]) = SweepsOf(df) \ NamedSweeps(ii.items)

(* C23: keep_sweeps keeps only the named sweeps: an all-integer list names  *)
(* 'sweep' + i in three digits, an all-string list names its elements; a    *)
(* list that is neither raises TypeError and returns no frame.  A frame     *)
(* that is returned holds the named sweeps of df, with df's rows, and       *)
(* nothing else; it is returned whenever df holds every named sweep.        *)
C23_KeepSelectsNamed ==
    (call.fn = "keep_sweeps" /\ CallOver) =>
        /\ (err = "TypeError") <=> ~IntsOrNames(ii.items)
        /\ err = "TypeError" => (pc = "raised" /\ ret = <<>>)
        /\ pc = "returned" =>
              /\ SweepsOf(ret[1]) = SweepsOf(df) \cap NamedSweeps(ii.items)
              /\ \A i \in 1..Len(ret[1].blocks) :
                    \E j \in 1..Len(df.blocks) : ret[1].blocks[i] = df.blocks[j]
        /\ (IntsOrNames(ii.items) /\ NamedSweeps(ii.items) \subseteq SweepsOf(df))
              => pc = "returned"

C23_Witness ==
    /\ call.fn = "keep_sweeps"
    /\ pc = "returned"
    /\ Len(df.blocks) = 2
    /\ Len(ii.items) = 1
    /\ ii.items[1] = [type |-> "int", value |-> <<"", <<2>>>>]
    /\ SweepsOf(ret[1]) = {<<"sweep", <<0, 0, 2>>>>}

C23_WitnessTypeError ==
    /\ call.fn = "keep_sweeps"
    /\ pc = "raised"
    /\ err = "TypeError"
    /\ Len(ii.items) = 2
    /\ ii.items[1].type = "int"
    /\ ii.items[2].type = "float"

(* The peaks returned, as a set, and the data the peaks were found in *)
Returned == {ret[1][k] : k \in 1..Len(ret[1])}

PeakData == IF call.valley THEN Negate(call.x) ELSE call.x

MpdCase ==
    /\ call.fn = "detect_peaks"
    /\ pc = "returned"
    /\ call.mpd > 1
    /\ ~call.kpsh

Ascending(q) == \A i, j \in 1..Len(q) : i < j => q[i] < q[j]

(* C24 as stated: with mpd > 1 and kpsh = False the indices returned are    *)
(* ascending and pairwise at least mpd apart, and of any two candidate      *)
(* peaks closer than mpd the lower one is removed.                          *)
C24_LowerOfTwoRemoved ==
    MpdCase =>
        /\ Ascending(ret[1])
        /\ \A a, b \in Returned : a # b => Abs(a - b) >= call.mpd
        /\ \A p, q \in Candidates(call.x, call) :
              (p # q /\ Abs(p - q) < call.mpd /\ At(PeakData, p) < At(PeakData, q))
                 => p \notin Returned

(* C24: with mpd > 1 and kpsh = False the indices returned are candidate    *)
(* peaks, ascending and pairwise at least mpd apart; of two candidate peaks *)
(* closer than mpd the lower one is removed if the higher one is kept, and  *)
(* a candidate is only removed for a kept peak within mpd of it that is at  *)
(* least as high.                                                           *)
C24_LowerRemovedForKept ==
    MpdCase =>
        /\ Ascending(ret[1])
        /\ Returned \subseteq Candidates(call.x, call)
        /\ \A a, b \in Returned : a # b => Abs(a - b) >= call.mpd
        /\ \A p, q \in Candidates(call.x, call) :
              (/\ p # q
               /\ Abs(p - q) < call.mpd
               /\ At(PeakData, p) < At(PeakData, q)
               /\ q \in Returned) => p \notin Returned
        /\ \A p \in Candidates(call.x, call) \ Returned :
              \E q \in Returned :
                 Abs(p - q) <= call.mpd /\ At(PeakData, q) >= At(PeakData, p)

(* Three peaks of falling height two samples apart, mpd = 3: the middle     *)
(* one is removed for the first, the last and lowest one stays.             *)
C24_Witness ==
    /\ MpdCase
    /\ call.x = <<0, 3, 0, 2, 0, 1, 0>>
    /\ call.mpd = 3
    /\ Candidates(call.x, call) = {1, 3, 5}
    /\ ret = <<<<1, 5>>>>

-----------------------------------------------------------------------------
(* Claims about utilities.simple_smoothing *)

NoNanIn(data) == \A k \in 1..Len(data) : ~IsNan(data[k])

(* The sum of data[lo..hi], 1-based *)
RECURSIVE SumOf(_, _, _)
SumOf(data, lo, hi) == IF lo > hi THEN 0 ELSE data[lo] + SumOf(data, lo + 1, hi)

(* C25: for data without NaN and a positive integer n, simple_smoothing     *)
(* returns an array as long as data whose first n-1 entries are NaN and     *)
(* whose entry k >= n-1 is the mean of data[k-n+1 .. k].                    *)
C25_RunningMean ==
    (call.fn = "simple_smoothing" /\ pc = "returned" /\ NoNanIn(call.data)) =>
        /\ Len(ret[1]) = Len(call.data)
        /\ \A k \in 1..Len(ret[1]) :
              IF k <= call.n - 1 THEN ret[1][k].nan
              ELSE /\ ~ret[1][k].nan
                   /\ RatEq(ret[1][k], Rat(SumOf(call.data, k - call.n + 1, k), call.n))

(* Every frame of the recursion runs on a strictly shorter array than the   *)
(* frame that called it.                                                    *)
FramesShorten == \A i \in 1..(Len(stack) - 1) : stack[i + 1].len < stack[i].len

(* C30: simple_smoothing terminates for every array of numbers and NaN at   *)
(* any positions: each recursive call is made on a strictly shorter array   *)
(* and the recursion ends in the non-recursive branch, so no call ends in   *)
(* an exception and a call that is over has returned an array.              *)
C30_RecursionEnds ==
    call.fn = "simple_smoothing" =>
        /\ FramesShorten
        /\ pc # "raised"
        /\ (pc \notin {"idle", "running", "returning"}) => (pc = "returned" /\ ret # <<>>)

-----------------------------------------------------------------------------
(* Claims about find_peak, analyze_current and calc_mem_prop *)

(* The primary values of the rows of a frame within [start_time, end_time] *)
WindowValues(rows, start_time, end_time) ==
    {rows[k].primary : k \in {k \in 1..Len(rows) :
                                 rows[k].time >= start_time /\ rows[k].time <= end_time}}

IsExtreme(v, S, sign) ==
    /\ \E w \in S : RatEq(v, w)
    /\ \A w \in S : IF sign = "min" THEN ~RatLess(w, v) ELSE ~RatLess(v, w)

(* C26: in both variants of find_peak the returned row is the minimum       *)
(* (sign 'min') or maximum (sign 'max') of the rows between start_time and  *)
(* end_time: its time lies in that window and its amplitude is the min/max  *)
(* of the primary column over the window; a window that holds rows gives a  *)
(* row.                                                                     *)
C26_PeakInWindow ==
    (call.fn = "find_peak" /\ pc = "returned") =>
        LET S == WindowValues(df.rows, call.start_time, call.end_time)
        IN  /\ Len(ret[1]) = (IF S = {} THEN 0 ELSE 1)
            /\ \A k \in 1..Len(ret[1]) :
                  /\ ret[1][k].peak_time >= call.start_time
                  /\ ret[1][k].peak_time <= call.end_time
                  /\ IsExtreme(ret[1][k].peak_amp, S, call.sign)

(* C27: analyze_current honours sign: the peak it returns is the maximum    *)
(* (sign 'max') or the minimum (sign 'min') of the baselined primary column *)
(* within [start_time, end_time].                                           *)
C27_SignHonoured ==
    (call.fn = "analyze_current" /\ pc = "returned") =>
        LET S == WindowValues(df.rows, call.start_time, call.end_time)
        IN  \A k \in 1..Len(ret[1].peak_df) :
               IsExtreme(ret[1].peak_df[k].peak_amp, S, call.sign)

(* C28: calc_mem_prop does not modify the caller's dataframe: no step of    *)
(* the call changes a value of df, whether the call returns or raises,      *)
(* although baseline subtracts in place.                                    *)
C28_CallerFrameUnchanged == [][call.fn = "calc_mem_prop" => df' = df]_vars

(* A call has returned its four values after baselining its own copy *)
C28_Witness ==
    /\ call.fn = "calc_mem_prop"
    /\ pc = "returned"
    /\ ret # <<>>
    /\ Len(df.rows) > MaxRows
    /\ df.rows[3].primary = Rat(0 - 20, 1)

(* A call has raised after baselining its own copy *)
C28_WitnessRaised ==
    /\ call.fn = "calc_mem_prop"
    /\ pc = "raised"
    /\ err = "IndexError"
    /\ Len(df.rows) > 0

-----------------------------------------------------------------------------
(* Claims about read_pv.import_folder *)

(* Every block of an optional table that carries the name of sweep k holds  *)
(* the frame given for k.                                                   *)
BlocksTellFile(optional, Frame(_)) ==
    \A t \in 1..Len(optional) : \A b \in 1..Len(optional[t].blocks) :
        \A k \in 1..Len(call.vr_xmls) :
            optional[t].blocks[b].sweep = PvSweepName(k)
                => optional[t].blocks[b].rows = Frame(k)

(* C29: in the 'voltage recording' and the 'linescan' table that            *)
(* import_folder returns, the block labelled 'Sweep' + k in four digits     *)
(* holds the data of the k-th VoltageRecording XML file in sorted order,    *)
(* also when some XML files contribute no data file of that kind.           *)
C29_SweepTellsFile ==
    (call.fn = "import_folder" /\ pc = "returned") =>
        /\ BlocksTellFile(ret[1].voltage_recording, VrCsv)
        /\ BlocksTellFile(ret[1].linescan, LsCsv)

=============================================================================
